---- MODULE Spec2Model ----
(***************************************************************************)
(* Model of the folder upload pipeline of                                  *)
(* src/helpers/extract_and_upload_folders.py: process_folder hands the     *)
(* media files of one directory tree to upload_single_file on a bounded    *)
(* thread pool; UploadCounters tracks the in-flight files of each folder   *)
(* and tells the worker that empties a folder's set to delete the folder.  *)
(*                                                                         *)
(* Model of src/scraper.py: make_request_with_retries and request_download *)
(* fetch pages and archives with bounded retries; download_zip probes the  *)
(* bucket for a marker object, downloads and extracts the archive, uploads *)
(* its media files and writes the outcome to the ledger.                   *)
(***************************************************************************)
EXTENDS Integers, FiniteSets, Sequences, TLC

(* ---------------------------- bounds --------------------------------- *)

\* number of media files the processed directory tree may hold
NumFiles == 2

\* largest max_workers process_folder is called with
MaxWorkers == 2

Files == 1..NumFiles

(* ---------------------------- the directory tree --------------------- *)

\* folder_path, the directory handed to process_folder
Root == "D"

\* a sub-directory of folder_path (glob "**/*.mp3" descends into it)
Sub == "D/sub"

Folders == {Root, Sub}

\* the directories removed by shutil.rmtree(d): d and everything below it
Under(d) == IF d = Root THEN {Root, Sub} ELSE {d}

GCS_PREFIX == "raw_audio"

NoThread == 0

VARIABLES
    dirOf,          \* file -> os.path.dirname(mp3_file)
    max_workers,    \* the max_workers argument of process_folder
    diskDirs,       \* directories that exist on local disk
    diskFiles,      \* media files that exist on local disk
    remote,         \* blob names present in the bucket
    mainPc,         \* position of process_folder
    reason,         \* fourth component of process_folder's return value
    mp3_files,      \* the files glob discovered
    pc,             \* position of each upload_single_file task
    outcome,        \* what upload_mp3_to_gcs did for each file
    ret,            \* value remove_file_from_folder returned to each task
    folder_files,   \* UploadCounters.folder_files
    folder_lock,    \* holder of UploadCounters.folder_lock
    lock,           \* holder of UploadCounters.lock
    uploaded,       \* UploadCounters.uploaded
    skipped,        \* UploadCounters.skipped
    failed,         \* UploadCounters.failed
    regCount,       \* history: add_file_to_folder calls per file
    relCount,       \* history: remove_file_from_folder calls per file
    trueReturns,    \* history: remove_file_from_folder calls that returned True, per folder
    deleteCalls,    \* history: delete_folder_if_empty calls per folder
    regAfterRel,    \* history: a file of the folder was registered after one was released
    everReg,        \* history: the <<folder, file>> pairs ever handed to add_file_to_folder
    lastCall,       \* the last direct call on an UploadCounters object and its result
    req,            \* scraper: the running make_request_with_retries call
    dl,             \* scraper: the running request_download call
    zip,            \* scraper: the running download_zip call
    csv_rows,       \* scraper: the rows write_csv_entry appended to the ledger
    local,          \* scraper: folder_path on local disk and what it holds
    up,             \* the calls of upload_mp3_to_gcs made for one file, in order
    pg,             \* scraper: the running get_total_pages call
    ex,             \* the archive extraction loop of process_folder
    orch,           \* scraper: the session orchestrator of __main__ and its workers
    ky,             \* the media files of several archives and the keys they are uploaded under
    cr,             \* scraper: the catalog crawl of __main__ and one process_session walk
    lg              \* scraper: the ledger file and the write_csv_entry calls in progress

vars == <<dirOf, max_workers, diskDirs, diskFiles, remote, mainPc, reason, mp3_files, pc,
          outcome, ret, folder_files, folder_lock, lock, uploaded, skipped,
          failed, regCount, relCount, trueReturns, deleteCalls, regAfterRel,
          everReg, lastCall, req, dl, zip, csv_rows, local, up, pg, ex, orch,
          ky, cr, lg>>

inputVars == <<dirOf, max_workers>>

scraperVars == <<req, dl, zip, csv_rows, local>>

\* the state of the functions that are modelled on their own
unitVars == <<up, pg, ex, orch>>

\* the state of the crawl, of the ledger file and of the upload keys, which
\* are modelled on their own as well
crawlVars == <<ky, cr, lg>>

histVars == <<regCount, relCount, trueReturns, deleteCalls, regAfterRel, everReg>>

counterVars == <<uploaded, skipped, failed>>

diskVars == <<diskDirs, diskFiles>>

(* ---------------------------- UploadCounters ------------------------- *)

\* add_file_to_folder that starts a fresh set on every call
AddFileToFolderOverwrite(ff, d, f) ==
    [x \in (DOMAIN ff) \cup {d} |-> IF x = d THEN {f} ELSE ff[x]]

\* add_file_to_folder without line 58: the set is created and nothing is put
\* into it
AddFileToFolderEmptySet(ff, d, f) ==
    [x \in (DOMAIN ff) \cup {d} |-> IF x \in DOMAIN ff THEN ff[x] ELSE {}]

\* add_file_to_folder: the map after the call
AddFileToFolder(ff, d, f) ==
    [x \in (DOMAIN ff) \cup {d} |->
        IF x = d
        THEN (IF d \in DOMAIN ff THEN ff[d] ELSE {}) \cup {f}
        ELSE ff[x]]

\* remove_file_from_folder without the del of line 70: the emptied set stays
RemoveFileFromFolderKeepEntry(ff, d, f) ==
    IF d \in DOMAIN ff
    THEN [files  |-> [ff EXCEPT ![d] = ff[d] \ {f}],
          ret    |-> (ff[d] \ {f} = {}),
          raised |-> FALSE]
    ELSE [files |-> ff, ret |-> FALSE, raised |-> FALSE]

\* remove_file_from_folder with set.remove and no membership test: a file or
\* folder that is not tracked raises KeyError
RemoveFileFromFolderStrict(ff, d, f) ==
    IF d \in DOMAIN ff /\ f \in ff[d]
    THEN IF ff[d] \ {f} = {}
         THEN [files  |-> [x \in (DOMAIN ff) \ {d} |-> ff[x]],
               ret    |-> TRUE,
               raised |-> FALSE]
         ELSE [files  |-> [ff EXCEPT ![d] = ff[d] \ {f}],
               ret    |-> FALSE,
               raised |-> FALSE]
    ELSE [files |-> ff, ret |-> FALSE, raised |-> TRUE]

\* remove_file_from_folder: the map after the call, the returned value, and
\* whether the call raised
RemoveFileFromFolder(ff, d, f) ==
    IF d \in DOMAIN ff
    THEN IF ff[d] \ {f} = {}
         THEN [files  |-> [x \in (DOMAIN ff) \ {d} |-> ff[x]],
               ret    |-> TRUE,
               raised |-> FALSE]
         ELSE [files  |-> [ff EXCEPT ![d] = ff[d] \ {f}],
               ret    |-> FALSE,
               raised |-> FALSE]
    ELSE [files |-> ff, ret |-> FALSE, raised |-> FALSE]

\* f is in the tracked set of d
Tracked(ff, d, f) == d \in DOMAIN ff /\ f \in ff[d]

NoCall == [op |-> "none", folder |-> Root, file |-> 0, ret |-> FALSE, raised |-> FALSE,
           tracked |-> FALSE, seq |-> 0]

(* ---------------------------- paths and the bucket ------------------- *)

\* os.path.relpath(dirname, source_dir) with source_dir = folder_path
RelDir(d) == IF d = Root THEN "." ELSE "sub"

\* relative_path of a file and the blob name upload_mp3_to_gcs builds from it
BlobName(dirs, f) == <<GCS_PREFIX, RelDir(dirs[f]), f>>

\* blob_exists: the probe answers True only when the blob is there and the
\* probe itself did not fail; a failed probe answers False
BlobExists(store, name, probeFails) == (name \in store) /\ ~probeFails

\* upload_mp3_to_gcs: the outcome for one file and the bucket afterwards.
\* upload_from_filename opens the local file before it sends anything: when
\* the file is gone the call raises without reaching the bucket ("Missing");
\* "Failed" is a transfer the bucket refused.  Both return False.
UploadMp3ToGcs(store, files, dirs, f, probeFails, transferFails) ==
    IF BlobExists(store, BlobName(dirs, f), probeFails)
    THEN [ok |-> TRUE, outcome |-> "AlreadyExisted", store |-> store]
    ELSE IF f \notin files
         THEN [ok |-> FALSE, outcome |-> "Missing", store |-> store]
         ELSE IF ~transferFails
              THEN [ok |-> TRUE, outcome |-> "Uploaded",
                    store |-> store \cup {BlobName(dirs, f)}]
              ELSE [ok |-> FALSE, outcome |-> "Failed", store |-> store]

(* ---------------------------- local disk ----------------------------- *)

\* shutil.rmtree(d)
RmtreeDirs(dirs, d) == dirs \ Under(d)

RmtreeFiles(files, dirs, d) == {f \in files : dirs[f] \notin Under(d)}

(* ---------------------------- the scraper at rest ------------------- *)

\* no make_request_with_retries call is running
NoRequest == [pc |-> "idle", module |-> "scraper", url |-> "none", retries |-> 0,
              attempt |-> 0, gets |-> 0, slept |-> 0, seen |-> {},
              last |-> "none", result |-> "none"]

\* no request_download call is running
NoDownload == [pc |-> "idle", retries |-> 0, attempt |-> 0, gets |-> 0,
               waits |-> << >>, last |-> "none", result |-> "none"]

\* no download_zip call is running
NoZip == [pc |-> "idle"]

\* folder_path does not exist
NoLocal == [folder |-> FALSE, archive |-> FALSE, files |-> {}]

\* src/scraper.py is not running
ScraperIdle ==
    /\ req = NoRequest
    /\ dl = NoDownload
    /\ zip = NoZip
    /\ csv_rows = << >>
    /\ local = NoLocal

\* no function modelled on its own is running
UnitsIdle ==
    /\ up = [pc |-> "idle"]
    /\ pg = [pc |-> "idle"]
    /\ ex = [pc |-> "idle"]
    /\ orch = [pc |-> "idle"]

\* no crawl, no ledger write and no key run is modelled
CrawlIdle ==
    /\ ky = [pc |-> "idle"]
    /\ cr = [pc |-> "idle"]
    /\ lg = [pc |-> "idle"]

(* ---------------------------- initial state -------------------------- *)

Init ==
    /\ \E n \in 0..NumFiles :
          /\ diskFiles = 1..n
          /\ dirOf \in {g \in [Files -> Folders] : \A f \in Files : f > n => g[f] = Root}
    /\ max_workers \in 1..MaxWorkers
    /\ diskDirs = {Root} \cup {dirOf[f] : f \in diskFiles}
    /\ \E s \in SUBSET diskFiles : remote = {BlobName(dirOf, f) : f \in s}
    /\ mainPc = "check_gcs"
    /\ reason = "none"
    /\ mp3_files = {}
    /\ pc = [f \in Files |-> "pending"]
    /\ outcome = [f \in Files |-> "none"]
    /\ ret = [f \in Files |-> FALSE]
    /\ folder_files = << >>
    /\ folder_lock = NoThread
    /\ lock = NoThread
    /\ uploaded = 0
    /\ skipped = 0
    /\ failed = 0
    /\ regCount = [f \in Files |-> 0]
    /\ relCount = [f \in Files |-> 0]
    /\ trueReturns = [d \in Folders |-> 0]
    /\ deleteCalls = [d \in Folders |-> 0]
    /\ regAfterRel = [d \in Folders |-> FALSE]
    /\ everReg = {}
    /\ lastCall = NoCall
    /\ ScraperIdle
    /\ UnitsIdle
    /\ CrawlIdle

(* ---------------------------- process_folder ------------------------- *)

taskVars == <<pc, outcome, ret, folder_files, folder_lock, lock>>

\* lines 306-313: the folder is already on the bucket: remove it and return
FolderAlreadyOnGcs ==
    /\ mainPc = "check_gcs"
    /\ diskDirs' = RmtreeDirs(diskDirs, Root)
    /\ diskFiles' = RmtreeFiles(diskFiles, dirOf, Root)
    /\ mainPc' = "returned"
    /\ reason' = "already_exists_on_gcs"
    /\ UNCHANGED <<inputVars, unitVars, crawlVars, remote, mp3_files, taskVars, counterVars, histVars, lastCall, scraperVars>>

\* lines 310, 316-339: not on the bucket (or the check failed); no archive to
\* extract; glob finds the media files
FindMp3Files ==
    /\ mainPc = "check_gcs"
    /\ mp3_files' = diskFiles
    /\ IF diskFiles = {}
       THEN mainPc' = "returned" /\ reason' = "no_mp3_files"
       ELSE mainPc' = "run" /\ reason' = reason
    /\ UNCHANGED <<inputVars, unitVars, crawlVars, diskVars, remote, taskVars, counterVars, histVars, lastCall, scraperVars>>

Active == {f \in Files : pc[f] \notin {"pending", "done"}}

\* lines 350-356: the executor hands the next submitted task to a free worker
StartTask(f) ==
    /\ mainPc = "run"
    /\ f \in mp3_files
    /\ pc[f] = "pending"
    /\ \A g \in mp3_files : g < f => pc[g] # "pending"
    /\ Cardinality(Active) < max_workers
    /\ pc' = [pc EXCEPT ![f] = "add"]
    /\ UNCHANGED <<inputVars, unitVars, crawlVars, diskVars, remote, mainPc, reason, mp3_files, outcome, ret,
                   folder_files, folder_lock, lock, counterVars, histVars, lastCall, scraperVars>>

\* a process_folder that returns the counters without waiting for the workers
ReturnCompletedEarly ==
    /\ mainPc = "run"
    /\ mainPc' = "returned"
    /\ reason' = "completed"
    /\ UNCHANGED <<inputVars, unitVars, crawlVars, diskVars, remote, mp3_files, taskVars, counterVars, histVars, lastCall, scraperVars>>

\* lines 359-366: every future has completed; return the counters
ReturnCompleted ==
    /\ mainPc = "run"
    /\ \A f \in mp3_files : pc[f] = "done"
    /\ mainPc' = "returned"
    /\ reason' = "completed"
    /\ UNCHANGED <<inputVars, unitVars, crawlVars, diskVars, remote, mp3_files, taskVars, counterVars, histVars, lastCall, scraperVars>>

(* ---------------------------- upload_single_file --------------------- *)

\* line 272 -> line 55: take folder_lock
AddLock(f) ==
    /\ pc[f] = "add"
    /\ folder_lock = NoThread
    /\ folder_lock' = f
    /\ pc' = [pc EXCEPT ![f] = "add_cs"]
    /\ UNCHANGED <<inputVars, unitVars, crawlVars, diskVars, remote, mainPc, reason, mp3_files, outcome, ret,
                   folder_files, lock, counterVars, histVars, lastCall, scraperVars>>

\* lines 56-58: register the file, give the lock up
AddBody(f) ==
    /\ pc[f] = "add_cs"
    /\ folder_lock = f
    /\ folder_files' = AddFileToFolder(folder_files, dirOf[f], f)
    /\ folder_lock' = NoThread
    /\ pc' = [pc EXCEPT ![f] = "upload"]
    /\ regCount' = [regCount EXCEPT ![f] = @ + 1]
    /\ regAfterRel' = [regAfterRel EXCEPT ![dirOf[f]] =
                          @ \/ (\E g \in Files : dirOf[g] = dirOf[f] /\ relCount[g] > 0)]
    /\ UNCHANGED <<inputVars, unitVars, crawlVars, diskVars, remote, mainPc, reason, mp3_files, outcome, ret,
                   lock, counterVars, relCount, trueReturns, deleteCalls, everReg, lastCall, scraperVars>>

\* line 275: upload_mp3_to_gcs returns True or False
Upload(f) ==
    /\ pc[f] = "upload"
    /\ \E probeFails \in BOOLEAN, transferFails \in BOOLEAN :
          LET r == UploadMp3ToGcs(remote, diskFiles, dirOf, f, probeFails, transferFails)
          IN /\ remote' = r.store
             /\ outcome' = [outcome EXCEPT ![f] = r.outcome]
    /\ pc' = [pc EXCEPT ![f] = "incr"]
    /\ UNCHANGED <<inputVars, unitVars, crawlVars, diskVars, mainPc, reason, mp3_files, ret, folder_files,
                   folder_lock, lock, counterVars, histVars, lastCall, scraperVars>>

\* an upload_single_file without the handler of lines 285-292: what lines
\* 275-278 raise ends the worker, and the future keeps the exception
UploadRaisesUnhandled(f) ==
    /\ pc[f] = "upload"
    /\ outcome' = [outcome EXCEPT ![f] = "Raised"]
    /\ pc' = [pc EXCEPT ![f] = "done"]
    /\ UNCHANGED <<inputVars, unitVars, crawlVars, diskVars, remote, mainPc, reason, mp3_files, ret, folder_files,
                   folder_lock, lock, counterVars, histVars, lastCall, scraperVars>>

\* lines 275-278 raise: control goes to the handler of line 285, which runs
\* increment_failed, remove_file_from_folder and delete_folder_if_empty like
\* the path of a failed upload.  Lines 265-272 are path arithmetic on a path
\* glob produced and a dict insert; delete_folder_if_empty (line 283) has its
\* own try/except; so the handler is entered between registration and release.
UploadRaises(f) ==
    /\ pc[f] = "upload"
    /\ outcome' = [outcome EXCEPT ![f] = "Raised"]
    /\ pc' = [pc EXCEPT ![f] = "incr"]
    /\ UNCHANGED <<inputVars, unitVars, crawlVars, diskVars, remote, mainPc, reason, mp3_files, ret, folder_files,
                   folder_lock, lock, counterVars, histVars, lastCall, scraperVars>>

\* lines 276, 278, 287 -> line 42/50: take the counter lock
IncLock(f) ==
    /\ pc[f] = "incr"
    /\ lock = NoThread
    /\ lock' = f
    /\ pc' = [pc EXCEPT ![f] = "incr_cs"]
    /\ UNCHANGED <<inputVars, unitVars, crawlVars, diskVars, remote, mainPc, reason, mp3_files, outcome, ret,
                   folder_files, folder_lock, counterVars, histVars, lastCall, scraperVars>>

\* the counter upload_single_file increments for an outcome
CounterFor(o) == IF o \in {"Uploaded", "AlreadyExisted"} THEN "uploaded" ELSE "failed"

\* lines 43, 51: increment, give the lock up
IncBody(f) ==
    /\ pc[f] = "incr_cs"
    /\ lock = f
    /\ uploaded' = uploaded + (IF CounterFor(outcome[f]) = "uploaded" THEN 1 ELSE 0)
    /\ failed' = failed + (IF CounterFor(outcome[f]) = "failed" THEN 1 ELSE 0)
    /\ skipped' = skipped
    /\ lock' = NoThread
    /\ pc' = [pc EXCEPT ![f] = "remove"]
    /\ UNCHANGED <<inputVars, unitVars, crawlVars, diskVars, remote, mainPc, reason, mp3_files, outcome, ret,
                   folder_files, folder_lock, histVars, lastCall, scraperVars>>

\* lines 281, 291 -> line 65: take folder_lock
RemoveLock(f) ==
    /\ pc[f] = "remove"
    /\ folder_lock = NoThread
    /\ folder_lock' = f
    /\ pc' = [pc EXCEPT ![f] = "remove_cs"]
    /\ UNCHANGED <<inputVars, unitVars, crawlVars, diskVars, remote, mainPc, reason, mp3_files, outcome, ret,
                   folder_files, lock, counterVars, histVars, lastCall, scraperVars>>

\* a remove_file_from_folder that removes the directory itself, inside the
\* with block: the worker goes on to the rmtree still holding folder_lock
RemoveBodyKeepLock(f) ==
    /\ pc[f] = "remove_cs"
    /\ folder_lock = f
    /\ LET r == RemoveFileFromFolder(folder_files, dirOf[f], f)
       IN /\ folder_files' = r.files
          /\ ret' = [ret EXCEPT ![f] = r.ret]
          /\ pc' = [pc EXCEPT ![f] = IF r.ret THEN "delete" ELSE "done"]
          /\ trueReturns' = [trueReturns EXCEPT ![dirOf[f]] = @ + (IF r.ret THEN 1 ELSE 0)]
          /\ folder_lock' = IF r.ret THEN f ELSE NoThread
    /\ relCount' = [relCount EXCEPT ![f] = @ + 1]
    /\ UNCHANGED <<inputVars, unitVars, crawlVars, diskVars, remote, mainPc, reason, mp3_files, outcome,
                   lock, counterVars, regCount, deleteCalls, regAfterRel, everReg, lastCall, scraperVars>>

\* an upload_single_file that calls delete_folder_if_empty whatever
\* remove_file_from_folder returned
RemoveBodyAlwaysDelete(f) ==
    /\ pc[f] = "remove_cs"
    /\ folder_lock = f
    /\ LET r == RemoveFileFromFolder(folder_files, dirOf[f], f)
       IN /\ folder_files' = r.files
          /\ ret' = [ret EXCEPT ![f] = r.ret]
          /\ pc' = [pc EXCEPT ![f] = "delete"]
          /\ trueReturns' = [trueReturns EXCEPT ![dirOf[f]] = @ + (IF r.ret THEN 1 ELSE 0)]
    /\ folder_lock' = NoThread
    /\ relCount' = [relCount EXCEPT ![f] = @ + 1]
    /\ UNCHANGED <<inputVars, unitVars, crawlVars, diskVars, remote, mainPc, reason, mp3_files, outcome,
                   lock, counterVars, regCount, deleteCalls, regAfterRel, everReg, lastCall, scraperVars>>

\* lines 66-72: release the file, give the lock up
RemoveBody(f) ==
    /\ pc[f] = "remove_cs"
    /\ folder_lock = f
    /\ LET r == RemoveFileFromFolder(folder_files, dirOf[f], f)
       IN /\ folder_files' = r.files
          /\ ret' = [ret EXCEPT ![f] = r.ret]
          /\ pc' = [pc EXCEPT ![f] = IF r.ret THEN "delete" ELSE "done"]
          /\ trueReturns' = [trueReturns EXCEPT ![dirOf[f]] = @ + (IF r.ret THEN 1 ELSE 0)]
    /\ folder_lock' = NoThread
    /\ relCount' = [relCount EXCEPT ![f] = @ + 1]
    /\ UNCHANGED <<inputVars, unitVars, crawlVars, diskVars, remote, mainPc, reason, mp3_files, outcome,
                   lock, counterVars, regCount, deleteCalls, regAfterRel, everReg, lastCall, scraperVars>>

\* a delete_folder_if_empty without its own try/except: an error of rmtree
\* reaches the handler of upload_single_file (line 285)
DeleteFolderUnguarded(f) ==
    /\ pc[f] = "delete"
    /\ \E rmtreeFails \in BOOLEAN :
          IF dirOf[f] \in diskDirs /\ ~rmtreeFails
          THEN /\ diskDirs' = RmtreeDirs(diskDirs, dirOf[f])
               /\ diskFiles' = RmtreeFiles(diskFiles, dirOf, dirOf[f])
               /\ pc' = [pc EXCEPT ![f] = "done"]
               /\ outcome' = outcome
          ELSE /\ UNCHANGED diskVars
               /\ pc' = [pc EXCEPT ![f] = IF dirOf[f] \in diskDirs THEN "incr" ELSE "done"]
               /\ outcome' = [outcome EXCEPT ![f] =
                                 IF dirOf[f] \in diskDirs THEN "Raised" ELSE @]
    /\ deleteCalls' = [deleteCalls EXCEPT ![dirOf[f]] = @ + 1]
    /\ UNCHANGED <<inputVars, unitVars, crawlVars, remote, mainPc, reason, mp3_files, ret, folder_files,
                   folder_lock, lock, counterVars, regCount, relCount, trueReturns,
                   regAfterRel, everReg, lastCall, scraperVars>>

\* lines 283, 292 -> lines 212-221: delete_folder_if_empty removes the whole
\* tree when the folder is there; an error of rmtree is logged and swallowed
DeleteFolderIfEmpty(f) ==
    /\ pc[f] = "delete"
    /\ \E rmtreeFails \in BOOLEAN :
          IF dirOf[f] \in diskDirs /\ ~rmtreeFails
          THEN /\ diskDirs' = RmtreeDirs(diskDirs, dirOf[f])
               /\ diskFiles' = RmtreeFiles(diskFiles, dirOf, dirOf[f])
          ELSE UNCHANGED diskVars
    /\ deleteCalls' = [deleteCalls EXCEPT ![dirOf[f]] = @ + 1]
    /\ pc' = [pc EXCEPT ![f] = "done"]
    /\ UNCHANGED <<inputVars, unitVars, crawlVars, remote, mainPc, reason, mp3_files, outcome, ret, folder_files,
                   folder_lock, lock, counterVars, regCount, relCount, trueReturns,
                   regAfterRel, everReg, lastCall, scraperVars>>

Next ==
    \/ FolderAlreadyOnGcs
    \/ FindMp3Files
    \/ ReturnCompleted
    \/ \E f \in Files :
          \/ StartTask(f)
          \/ AddLock(f)
          \/ AddBody(f)
          \/ Upload(f)
          \/ UploadRaises(f)
          \/ IncLock(f)
          \/ IncBody(f)
          \/ RemoveLock(f)
          \/ RemoveBody(f)
          \/ DeleteFolderIfEmpty(f)

Spec == Init /\ [][Next]_vars

\* the pipeline with its threads scheduled: a with block always gives its
\* lock back, the bucket calls carry a timeout, and the executor runs a
\* submitted task as soon as a worker is free, so a step that can be taken
\* is taken
SpecLive == Init /\ [][Next]_vars /\ WF_vars(Next)

(* ---------------------------- UploadCounters called directly --------- *)
(* Any sequence of add_file_to_folder and remove_file_from_folder calls on *)
(* one UploadCounters object, with any folder and any file as arguments;   *)
(* each call runs under folder_lock, so the calls are serialised.          *)

TrackerInit ==
    /\ dirOf = [f \in Files |-> Root]
    /\ max_workers = 1
    /\ diskDirs = Folders
    /\ diskFiles = {}
    /\ remote = {}
    /\ mainPc = "none"
    /\ reason = "none"
    /\ mp3_files = {}
    /\ pc = [f \in Files |-> "pending"]
    /\ outcome = [f \in Files |-> "none"]
    /\ ret = [f \in Files |-> FALSE]
    /\ folder_files = << >>
    /\ folder_lock = NoThread
    /\ lock = NoThread
    /\ uploaded = 0
    /\ skipped = 0
    /\ failed = 0
    /\ regCount = [f \in Files |-> 0]
    /\ relCount = [f \in Files |-> 0]
    /\ trueReturns = [d \in Folders |-> 0]
    /\ deleteCalls = [d \in Folders |-> 0]
    /\ regAfterRel = [d \in Folders |-> FALSE]
    /\ everReg = {}
    /\ lastCall = NoCall
    /\ ScraperIdle
    /\ UnitsIdle
    /\ CrawlIdle

trackerFrame == <<inputVars, unitVars, crawlVars, diskVars, remote, mainPc, reason, mp3_files, pc, outcome, ret,
                  folder_lock, lock, counterVars, regCount, relCount, trueReturns,
                  deleteCalls, regAfterRel, scraperVars>>

\* counters.add_file_to_folder(d, f)
CallAdd(d, f) ==
    /\ folder_files' = AddFileToFolder(folder_files, d, f)
    /\ everReg' = everReg \cup {<<d, f>>}
    /\ lastCall' = [op |-> "add", folder |-> d, file |-> f, ret |-> FALSE,
                    raised |-> FALSE, tracked |-> Tracked(folder_files, d, f),
                    seq |-> 1 - lastCall.seq]
    /\ UNCHANGED trackerFrame

\* counters.remove_file_from_folder(d, f)
CallRemove(d, f) ==
    /\ LET r == RemoveFileFromFolder(folder_files, d, f)
       IN /\ folder_files' = r.files
          /\ lastCall' = [op |-> "remove", folder |-> d, file |-> f, ret |-> r.ret,
                          raised |-> r.raised, tracked |-> Tracked(folder_files, d, f),
                          seq |-> 1 - lastCall.seq]
    /\ everReg' = everReg
    /\ UNCHANGED trackerFrame

TrackerNext ==
    \E d \in Folders, f \in Files :
        \/ CallAdd(d, f)
        \/ CallRemove(d, f)

SpecTracker == TrackerInit /\ [][TrackerNext]_vars

(* ==================== properties of the folder pipeline ============== *)

\* the discovered files whose directory is d
FilesIn(d) == {f \in mp3_files : dirOf[f] = d}

Registered(f) == regCount[f] >= 1

Released(f) == relCount[f] >= 1

\* the upload attempt of f has started (line 275 was entered)
UploadStarted(f) == outcome[f] # "none"

\* C1: the deletion of a directory is triggered exactly once (one
\* remove_file_from_folder call returns True and is followed by
\* delete_folder_if_empty), and only after all releases of its files.
C1_ExactlyOnceDeletion ==
    \A d \in Folders :
        /\ trueReturns[d] <= 1
        /\ deleteCalls[d] <= 1
        /\ (trueReturns[d] >= 1 => \A f \in FilesIn(d) : Released(f))
        /\ (reason = "completed" /\ FilesIn(d) # {}
               => trueReturns[d] = 1 /\ deleteCalls[d] = 1)

\* C2: while a file of a folder is registered and not yet released, the
\* folder still exists on disk.
C2_NoPrematureDeletion ==
    \A f \in mp3_files :
        (Registered(f) /\ ~Released(f)) => dirOf[f] \in diskDirs

\* C3: every discovered file is registered exactly once, and all the
\* registrations of a folder's files happen before the upload attempt of any
\* file of that folder starts.
C3_RegistrationPrecedesUploads ==
    \A f \in mp3_files :
        /\ regCount[f] <= 1
        /\ (pc[f] = "done" => regCount[f] = 1)
        /\ (UploadStarted(f) => \A g \in FilesIn(dirOf[f]) : Registered(g))

\* C4: a discovered media file is off the disk only when its own upload
\* outcome was Uploaded or AlreadyExisted (so never before its outcome is
\* known, and never when the outcome is Failed).
C4_RemovedOnlyAfterDurable ==
    \A f \in mp3_files :
        f \notin diskFiles => outcome[f] \in {"Uploaded", "AlreadyExisted"}

\* C5: a registered file is released exactly once on every exit path of
\* upload_single_file (upload succeeded, upload failed, exception), and never
\* twice.
C5_ReleasedExactlyOnce ==
    \A f \in Files :
        /\ relCount[f] <= 1
        /\ (Registered(f) /\ pc[f] \in {"delete", "done"} => relCount[f] = 1)
        /\ (Registered(f) /\ pc[f] \in {"upload", "incr", "incr_cs", "remove", "remove_cs"}
               => relCount[f] = 0)

\* C5 witness: the run is over, one file left by the exception path and one
\* by a failed upload, each released once.
C5_Witness ==
    /\ reason = "completed"
    /\ \E f, g \in mp3_files :
          /\ outcome[f] = "Raised" /\ relCount[f] = 1
          /\ outcome[g] = "Failed" /\ relCount[g] = 1

\* C6 precondition: every file of d is registered and none of them was
\* registered after a release of a file of d
AllRegisteredFirst(d) ==
    /\ FilesIn(d) # {}
    /\ \A f \in FilesIn(d) : Registered(f)
    /\ ~regAfterRel[d]

\* C6: when all files of a folder are registered before any is released,
\* exactly one release returns True, it is the last one to take the lock, the
\* others return False, and afterwards the folder has no entry.
C6_LastReleaseReturnsTrue ==
    \A d \in Folders :
        AllRegisteredFirst(d) =>
            /\ trueReturns[d] <= 1
            /\ (trueReturns[d] = 1 <=> \A f \in FilesIn(d) : Released(f))
            /\ ((\A f \in FilesIn(d) : Released(f)) => d \notin DOMAIN folder_files)
            /\ ((\E f \in FilesIn(d) : ~Released(f)) =>
                    /\ d \in DOMAIN folder_files
                    /\ folder_files[d] = {f \in FilesIn(d) : ~Released(f)})

\* C6 witness: two files of one folder, both registered before either was
\* released, both released, one True.
C6_Witness ==
    \E d \in Folders :
        /\ AllRegisteredFirst(d)
        /\ Cardinality(FilesIn(d)) >= 2
        /\ \A f \in FilesIn(d) : Released(f)
        /\ trueReturns[d] = 1

\* the sets of the folders other than d are what they were
OthersUnchanged(d) ==
    /\ (DOMAIN folder_files') \ {d} = (DOMAIN folder_files) \ {d}
    /\ \A x \in (DOMAIN folder_files) \ {d} : folder_files'[x] = folder_files[x]

\* C7: remove_file_from_folder on a tracked folder takes the file out of the
\* folder's set; an emptied set is dropped from the map and the call returns
\* True, otherwise it returns False and the set is the old set minus the file.
\* add_file_to_folder creates the set when the folder has no entry and
\* inserts the file.
C7_TrackerContract ==
    [][lastCall'.seq # lastCall.seq =>
          LET d == lastCall'.folder
              f == lastCall'.file
          IN /\ OthersUnchanged(d)
             /\ lastCall'.op = "add" =>
                   /\ d \in DOMAIN folder_files'
                   /\ folder_files'[d] =
                         (IF d \in DOMAIN folder_files THEN folder_files[d] ELSE {}) \cup {f}
             /\ (lastCall'.op = "remove" /\ d \in DOMAIN folder_files) =>
                   IF folder_files[d] \ {f} = {}
                   THEN lastCall'.ret /\ d \notin DOMAIN folder_files'
                   ELSE /\ ~lastCall'.ret
                        /\ d \in DOMAIN folder_files'
                        /\ folder_files'[d] = folder_files[d] \ {f}]_vars

\* C7 witness: a release that returned False left a smaller set behind, and
\* the other folder was created by an add.
C7_Witness ==
    /\ lastCall.op = "remove"
    /\ lastCall.tracked
    /\ ~lastCall.ret
    /\ lastCall.folder \in DOMAIN folder_files
    /\ Folders \subseteq DOMAIN folder_files

C9_TrackedIffPending ==
    mainPc = "run" =>
        \A d \in Folders :
            d \in DOMAIN folder_files <=> \E f \in FilesIn(d) : ~Released(f)

\* C10: a file's add_file_to_folder call precedes its remove_file_from_folder
\* call, and every delete_folder_if_empty call follows a
\* remove_file_from_folder call for that folder that returned True.
C10_CausalOrder ==
    /\ \A f \in Files :
          /\ relCount[f] <= regCount[f]
          /\ (pc[f] \in {"remove", "remove_cs"} => Registered(f) /\ ~Released(f))
          /\ (pc[f] = "delete" => Released(f) /\ ret[f])
    /\ \A d \in Folders :
          deleteCalls[d] + Cardinality({f \in FilesIn(d) : pc[f] = "delete"}) = trueReturns[d]

\* C10 witness: a folder was deleted by the worker whose release returned True.
C10_Witness ==
    \E f \in mp3_files :
        /\ pc[f] = "done"
        /\ ret[f]
        /\ regCount[f] = 1 /\ relCount[f] = 1
        /\ deleteCalls[dirOf[f]] >= 1
        /\ dirOf[f] \notin diskDirs

\* the positions at which a worker does I/O: the existence probe and the
\* transfer (line 275) and the recursive removal (lines 283, 292)
AtIO(f) == pc[f] \in {"upload", "delete"}

\* C11: folder_lock and the counter lock are held only inside the map and
\* counter operations: no worker holds either while it probes, uploads or
\* removes a directory, and the removal comes after the release returned True
\* and gave the lock up.
C11_NoLockAcrossIO ==
    \A f \in Files :
        /\ (folder_lock = f <=> pc[f] \in {"add_cs", "remove_cs"})
        /\ (lock = f <=> pc[f] = "incr_cs")
        /\ (AtIO(f) => folder_lock # f /\ lock # f)
        /\ (pc[f] = "delete" => ret[f] /\ Released(f))

\* C11 witness: one worker removes a directory while another worker is
\* inside a map operation, holding folder_lock.
C11_Witness ==
    \E f, g \in Files :
        /\ f # g
        /\ pc[f] = "delete"
        /\ folder_lock = g
        /\ pc[g] \in {"add_cs", "remove_cs"}

(* ===================================================================== *)
(* src/scraper.py: fetching pages and downloading archives               *)
(* ===================================================================== *)

\* largest retries argument the two fetch functions are called with
MaxRetries == 5

\* default retries and delay of make_request_with_retries
FetchRetries == 3

FetchDelay == 5

\* default retries of request_download
DownloadRetries == 5

\* everything of the folder upload pipeline but the bucket
pipelineVars == <<inputVars, unitVars, crawlVars, diskVars, mainPc, reason, mp3_files, taskVars, counterVars,
                  histVars, lastCall>>

\* extract_and_upload_folders.py is not running
PipelineIdle ==
    /\ dirOf = [f \in Files |-> Root]
    /\ max_workers = 1
    /\ diskDirs = {}
    /\ diskFiles = {}
    /\ mainPc = "none"
    /\ reason = "none"
    /\ mp3_files = {}
    /\ pc = [f \in Files |-> "pending"]
    /\ outcome = [f \in Files |-> "none"]
    /\ ret = [f \in Files |-> FALSE]
    /\ folder_files = << >>
    /\ folder_lock = NoThread
    /\ lock = NoThread
    /\ uploaded = 0
    /\ skipped = 0
    /\ failed = 0
    /\ regCount = [f \in Files |-> 0]
    /\ relCount = [f \in Files |-> 0]
    /\ trueReturns = [d \in Folders |-> 0]
    /\ deleteCalls = [d \in Folders |-> 0]
    /\ regAfterRel = [d \in Folders |-> FALSE]
    /\ everReg = {}
    /\ lastCall = NoCall

\* the row write_csv_entry appends (timestamp and duration left out)
Row(url, filename, status, error_message) ==
    [url |-> url, filename |-> filename, status |-> status, error_message |-> error_message]

(* ---------------------------- make_request_with_retries -------------- *)

\* what one requests.get + raise_for_status can do: return a 2xx response,
\* raise HTTPError for a 4xx or a 5xx status, raise Timeout, ConnectionError,
\* another RequestException, or an exception that is no RequestException
GetOutcomes == {"ok", "4xx", "5xx", "timeout", "connection", "request_exception",
                "other_exception"}

\* the transient outcomes: the ones slept on and tried again
Transient == {"5xx", "timeout", "connection"}

\* a handler that treats a client error like a server error
ClassifyClientErrorTransient(o) ==
    CASE o = "ok"                         -> "return_response"
      [] o \in {"4xx", "5xx"}             -> "retry"
      [] o = "http_other"                 -> "break"
      [] o \in {"timeout", "connection"}  -> "retry"
      [] o = "request_exception"          -> "break"
      [] OTHER                            -> "propagate"

\* the try statement of the loop body: which way an attempt's outcome leaves
\* it.  raise_for_status raises HTTPError only for 4xx and 5xx, so the
\* "http_other" branch (lines 271-276) is never taken; an exception that is
\* no RequestException matches no except clause and leaves the function
Classify(o) ==
    CASE o = "ok"                         -> "return_response"
      [] o = "5xx"                        -> "retry"
      [] o = "4xx"                        -> "return_none"
      [] o = "http_other"                 -> "break"
      [] o \in {"timeout", "connection"}  -> "retry"
      [] o = "request_exception"          -> "break"
      [] OTHER                            -> "propagate"

\* range(retries) counting one attempt too many
LoopContinuesInclusive(attempt, retries) == attempt <= retries

\* for attempt in range(retries): the loop body runs again
LoopContinues(attempt, retries) == attempt < retries

\* a loop that gives up without a word
AfterLoopRowsSilent(module, url) == << >>

\* the row written after the loop (scraper.py only; estimation.py prints)
AfterLoopRows(module, url) ==
    IF module = "scraper"
    THEN <<Row(url, "", "REQUEST_FAILED", "Max retries exceeded")>>
    ELSE << >>

\* the row the except clauses write before return or break
HandlerRows(module, url, o) ==
    IF module # "scraper" THEN << >>
    ELSE CASE o = "4xx"               -> <<Row(url, "", "REQUEST_404", "HTTP 4xx")>>
           [] o = "http_other"        -> <<Row(url, "", "REQUEST_HTTP_ERROR", "HTTP other")>>
           [] o = "request_exception" -> <<Row(url, "", "REQUEST_EXCEPTION", "str(e)")>>
           [] OTHER                   -> << >>

\* a call of make_request_with_retries(url, headers, retries) about to start
StartRequest(module, url, retries) ==
    [NoRequest EXCEPT !.pc = "attempt", !.module = module, !.url = url,
                      !.retries = retries]

\* one pass of the loop body: the GET, and the except clause that handles
\* what it raised; a break runs on into the code after the loop
RequestAttempt ==
    /\ req.pc = "attempt"
    /\ LoopContinues(req.attempt, req.retries)
    /\ \E o \in GetOutcomes :
          LET c  == Classify(o)
              r1 == [req EXCEPT !.gets = @ + 1, !.seen = @ \cup {o}, !.last = o]
          IN /\ req' =
                  CASE c = "return_response" ->
                          [r1 EXCEPT !.pc = "returned", !.result = "response"]
                    [] c = "retry" ->
                          [r1 EXCEPT !.slept = @ + FetchDelay, !.attempt = @ + 1]
                    [] c = "return_none" ->
                          [r1 EXCEPT !.pc = "returned", !.result = "None"]
                    [] c = "break" ->
                          [r1 EXCEPT !.pc = "returned", !.result = "None"]
                    [] OTHER ->
                          [r1 EXCEPT !.pc = "returned", !.result = "raised"]
             /\ csv_rows' = csv_rows \o HandlerRows(req.module, req.url, o)
                               \o (IF c = "break"
                                   THEN AfterLoopRows(req.module, req.url)
                                   ELSE << >>)
    /\ UNCHANGED <<dl, zip, local, remote, pipelineVars>>

\* the loop ran out of attempts: lines 286-288
RequestExhausted ==
    /\ req.pc = "attempt"
    /\ ~LoopContinues(req.attempt, req.retries)
    /\ req' = [req EXCEPT !.pc = "returned", !.result = "None"]
    /\ csv_rows' = csv_rows \o AfterLoopRows(req.module, req.url)
    /\ UNCHANGED <<dl, zip, local, remote, pipelineVars>>

FetchInit ==
    /\ PipelineIdle
    /\ UnitsIdle
    /\ CrawlIdle
    /\ remote = {}
    /\ \E n \in 0..MaxRetries, m \in {"scraper", "estimation"} :
          req = StartRequest(m, "page", n)
    /\ dl = NoDownload
    /\ zip = NoZip
    /\ csv_rows = << >>
    /\ local = NoLocal

FetchNext ==
    \/ RequestAttempt
    \/ RequestExhausted

\* one call of make_request_with_retries, for every retries argument
SpecFetch == FetchInit /\ [][FetchNext]_vars

(* ---------------------------- request_download ----------------------- *)

\* what one streamed GET + raise_for_status + writing the file can do:
\* succeed, raise HTTPError (4xx, 5xx), raise another RequestException,
\* raise ConnectionResetError, or raise something else (the open or a write
\* failing with OSError)
DownloadOutcomes == {"ok", "4xx", "5xx", "request_exception", "connection_reset",
                     "os_error"}

\* except (RequestException, ConnectionResetError): HTTPError is a
\* RequestException, so a 4xx status is caught like any other failure
Caught(o) == o \in {"4xx", "5xx", "request_exception", "connection_reset"}

RECURSIVE Pow2(_)
Pow2(k) == IF k = 0 THEN 1 ELSE 2 * Pow2(k - 1)

\* a wait that grows by two seconds per attempt
WaitTimeLinear(attempt) == 2 * attempt

\* wait_time = 2 ** attempt
WaitTime(attempt) == Pow2(attempt)

\* the failures that can leave a partly written file behind: the ones raised
\* while the body is streamed, after open(file_path, "wb")
MayLeavePartial(o) == o \in {"request_exception", "connection_reset", "os_error"}

\* a call of request_download(file_path, filename, url, retries) about to start
StartDownload(retries) ==
    [NoDownload EXCEPT !.pc = "attempt", !.attempt = 1, !.retries = retries]

\* one pass of the loop body: the streamed GET and the except clause
DownloadAttempt ==
    /\ dl.pc = "attempt"
    /\ dl.attempt <= dl.retries
    /\ \E o \in DownloadOutcomes, partial \in BOOLEAN :
          LET d1 == [dl EXCEPT !.gets = @ + 1, !.last = o]
          IN /\ partial => MayLeavePartial(o)
             /\ local' = [local EXCEPT !.archive = @ \/ partial \/ (o = "ok")]
             /\ CASE o = "ok" ->
                      /\ dl' = [d1 EXCEPT !.pc = "returned", !.result = "True"]
                      /\ csv_rows' = Append(csv_rows,
                                            Row("archive", "zip", "DOWNLOAD_SUCCESS", ""))
                  [] Caught(o) /\ dl.attempt = dl.retries ->
                      /\ dl' = [d1 EXCEPT !.pc = "returned", !.result = "False"]
                      /\ csv_rows' = Append(csv_rows,
                                            Row("archive", "zip", "DOWNLOAD_FAILED", "str(e)"))
                  [] Caught(o) /\ dl.attempt # dl.retries ->
                      /\ dl' = [d1 EXCEPT !.waits = Append(@, WaitTime(dl.attempt)),
                                          !.attempt = @ + 1]
                      /\ csv_rows' = csv_rows
                  [] OTHER ->
                      /\ dl' = [d1 EXCEPT !.pc = "returned", !.result = "raised"]
                      /\ csv_rows' = csv_rows
    /\ UNCHANGED <<req, zip, remote, pipelineVars>>

\* range(1, retries + 1) is empty: the function falls off its end
DownloadFallsThrough ==
    /\ dl.pc = "attempt"
    /\ dl.attempt > dl.retries
    /\ dl' = [dl EXCEPT !.pc = "returned", !.result = "None"]
    /\ UNCHANGED <<req, zip, csv_rows, local, remote, pipelineVars>>

DownloadInit ==
    /\ PipelineIdle
    /\ UnitsIdle
    /\ CrawlIdle
    /\ remote = {}
    /\ req = NoRequest
    /\ \E n \in 0..MaxRetries : dl = StartDownload(n)
    /\ zip = NoZip
    /\ csv_rows = << >>
    /\ local = [NoLocal EXCEPT !.folder = TRUE]

DownloadNext ==
    \/ DownloadAttempt
    \/ DownloadFallsThrough

\* one call of request_download, for every retries argument
SpecDownload == DownloadInit /\ [][DownloadNext]_vars

(* ---------------------------- fetch properties ----------------------- *)

\* C12: when every attempt of make_request_with_retries(retries = n) meets a
\* 5xx status, a timeout or a connection error, the call makes exactly n
\* attempts and then returns None; it never makes more than n attempts and
\* can always take its next step until it has returned.
C12_ExactlyNAttempts ==
    /\ req.gets <= req.retries
    /\ (req.pc = "attempt" => ENABLED FetchNext)
    /\ (req.pc = "returned" /\ req.seen \subseteq Transient) =>
          /\ req.gets = req.retries
          /\ req.result = "None"

\* C12 witness: a call with three retries that met a server error, a timeout
\* and a connection error has returned after its third attempt.
C12_Witness ==
    /\ req.pc = "returned"
    /\ req.retries = FetchRetries
    /\ req.seen = Transient
    /\ req.gets = FetchRetries
    /\ req.result = "None"

\* C13: a 4xx response ends the call at once: it is the last attempt, None is
\* returned, and nothing is slept after it (only the transient failures
\* before it were slept on); a call whose first response is 4xx makes exactly
\* one attempt and sleeps not at all.
C13_ClientErrorNotRetried ==
    /\ req.last = "4xx" =>
          /\ req.pc = "returned"
          /\ req.result = "None"
          /\ req.slept = FetchDelay * (req.gets - 1)
    /\ "4xx" \in req.seen => req.last = "4xx"
    /\ req.seen = {"4xx"} => (req.gets = 1 /\ req.slept = 0)

\* C13 witness: a first response of 404 ended the call after one attempt.
C13_Witness ==
    /\ req.seen = {"4xx"}
    /\ req.gets = 1
    /\ req.pc = "returned"
    /\ req.retries > 1

\* C14: make_request_with_retries never raises to its caller: whatever the
\* GET raises, the call ends by returning a response or None.
C14_NeverRaises == req.result # "raised"

\* C15: a call of scraper.py's make_request_with_retries that returned None
\* has appended at least one ledger row naming the URL and a reason; a call
\* that returned a response has appended no row.
C15_NoneLeavesARow ==
    (req.module = "scraper" /\ req.pc = "returned") =>
        /\ req.result = "None" =>
              \E i \in 1..Len(csv_rows) :
                  /\ csv_rows[i].url = req.url
                  /\ csv_rows[i].error_message # ""
        /\ req.result = "response" => csv_rows = << >>

\* C15 witness: the retries ran out and the one row of the ledger says so.
C15_Witness ==
    /\ req.module = "scraper"
    /\ req.pc = "returned"
    /\ req.result = "None"
    /\ req.gets = req.retries
    /\ req.seen \subseteq Transient
    /\ Len(csv_rows) = 1
    /\ csv_rows[1].status = "REQUEST_FAILED"

\* C16: a 4xx response to request_download is not tried again: the call
\* reports failure at once.
C16_DownloadClientErrorNotRetried ==
    dl.last = "4xx" => (dl.pc = "returned" /\ dl.result = "False")

\* the waits slept so far are 2, 4, 8, ...: the k-th is 2^k
WaitsAreBackoff == \A k \in 1..Len(dl.waits) : dl.waits[k] = Pow2(k)

\* C17: request_download(retries = n) makes at most n attempts; after a
\* failed attempt k < n (a requests exception or a connection reset) it has
\* waited 2^k seconds and goes on to attempt k + 1; it returns True at the
\* first success; when attempt n fails it returns False with no further
\* wait and a DOWNLOAD_FAILED row.  For n = 5 the waits are 2, 4, 8, 16.
C17_ExponentialBackoff ==
    /\ dl.gets <= dl.retries
    /\ WaitsAreBackoff
    /\ dl.pc = "attempt" => (dl.attempt = dl.gets + 1 /\ Len(dl.waits) = dl.gets)
    /\ dl.result = "True" =>
          /\ dl.last = "ok"
          /\ Len(dl.waits) = dl.gets - 1
    /\ dl.result = "False" =>
          /\ Caught(dl.last)
          /\ dl.gets = dl.retries
          /\ Len(dl.waits) = dl.retries - 1
          /\ csv_rows # << >>
          /\ csv_rows[Len(csv_rows)].status = "DOWNLOAD_FAILED"
    /\ (dl.result = "False" /\ dl.retries = DownloadRetries) => dl.waits = <<2, 4, 8, 16>>

\* C17 witness: five attempts failed; 2, 4, 8 and 16 seconds were waited.
C17_Witness ==
    /\ dl.result = "False"
    /\ dl.retries = DownloadRetries
    /\ dl.gets = DownloadRetries
    /\ dl.waits = <<2, 4, 8, 16>>
    /\ csv_rows[Len(csv_rows)].status = "DOWNLOAD_FAILED"

(* ===================================================================== *)
(* src/scraper.py: download_zip                                          *)
(* ===================================================================== *)

\* how many times download_zip is run for the same resource locator
MaxRuns == 2

\* os.path.basename(folder_path): the archive's name with date and time
FolderName == "session_date_time"

\* the paths, relative to folder_path, of the media files an archive may
\* hold, as sequences of path components
MemberPaths == {<<"ORIGINAL.mp3">>, <<"FLOOR.mp3">>, <<FolderName, "ORIGINAL.mp3">>}

\* blob_name = f"{GCS_PREFIX}/{relative_path}"
UploadKey(relative_path) == <<GCS_PREFIX>> \o relative_path

\* sample_blob_name = f"{GCS_PREFIX}/{os.path.basename(folder_path)}/ORIGINAL.mp3"
MarkerKey == <<GCS_PREFIX, FolderName, "ORIGINAL.mp3">>

\* a blob_exists that takes a failed probe for a blob that is there
ScraperBlobExistsAssumeOnError(store, name, probeFails) == (name \in store) \/ probeFails

\* blob_exists of scraper.py: blob.exists() raising is answered with False
ScraperBlobExists(store, name, probeFails) == (name \in store) /\ ~probeFails

\* an upload_mp3_to_gcs that reports success without storing the object
ScraperUploadMp3ToGcsNotStored(store, present, name, probeFails, transferFails) ==
    IF ScraperBlobExists(store, name, probeFails)
    THEN [ok |-> TRUE, outcome |-> "AlreadyExisted", transfer |-> FALSE, store |-> store]
    ELSE IF present /\ ~transferFails
         THEN [ok |-> TRUE, outcome |-> "Uploaded", transfer |-> TRUE, store |-> store]
         ELSE [ok |-> FALSE, outcome |-> "Failed", transfer |-> TRUE, store |-> store]

\* upload_mp3_to_gcs of scraper.py, for a bucket that is there: whether it
\* returned True, what it did, whether upload_from_filename was called, and
\* the bucket afterwards
ScraperUploadMp3ToGcs(store, present, name, probeFails, transferFails) ==
    IF ScraperBlobExists(store, name, probeFails)
    THEN [ok |-> TRUE, outcome |-> "AlreadyExisted", transfer |-> FALSE, store |-> store]
    ELSE IF present /\ ~transferFails
         THEN [ok |-> TRUE, outcome |-> "Uploaded", transfer |-> TRUE,
               store |-> store \cup {name}]
         ELSE [ok |-> FALSE, outcome |-> "Failed", transfer |-> TRUE, store |-> store]

\* a call of download_zip(url, save_folder, bucket) about to start
StartZip(bucket, members, run, prevFull, rows0) ==
    [pc |-> "fetch", bucket |-> bucket, members |-> members, run |-> run,
     prevFull |-> prevFull, rows0 |-> rows0, probe |-> "none", made |-> FALSE,
     extracted |-> FALSE, todo |-> {}, success_count |-> 0, total |-> 0,
     error_msg |-> "unset", outcome |-> [m \in MemberPaths |-> "none"],
     probeErr |-> {}, transferred |-> {}, rmtrees |-> 0, full |-> FALSE,
     result |-> "none"]

\* the rows the running download_zip call has appended
RunRows == SubSeq(csv_rows, zip.rows0 + 1, Len(csv_rows))

\* lines 422-446: the page fetch has returned; find the download link and
\* the date and time of the meeting.  A page with a link but without the
\* date or time span makes select_one(...).get_text raise AttributeError
ZipAfterFetch ==
    /\ zip.pc = "fetch"
    /\ req.pc = "returned"
    /\ req' = NoRequest
    /\ \E page \in {"no_link", "no_date", "full"} :
          CASE req.result = "raised" ->
                  /\ zip' = [zip EXCEPT !.pc = "returned", !.result = "raised"]
                  /\ csv_rows' = csv_rows
            [] req.result = "None" ->
                  /\ zip' = [zip EXCEPT !.pc = "returned", !.result = "returned"]
                  /\ csv_rows' = Append(csv_rows,
                                        Row("page", "", "ZIP_PROCESSING_FAILED", "Request failed"))
            [] req.result = "response" /\ page = "no_link" ->
                  /\ zip' = [zip EXCEPT !.pc = "returned", !.result = "returned"]
                  /\ csv_rows' = Append(csv_rows,
                                        Row("page", "", "ZIP_NOT_FOUND", "No download link found"))
            [] req.result = "response" /\ page = "no_date" ->
                  /\ zip' = [zip EXCEPT !.pc = "returned", !.result = "raised"]
                  /\ csv_rows' = csv_rows
            [] OTHER ->
                  /\ zip' = [zip EXCEPT !.pc = "probe"]
                  /\ csv_rows' = csv_rows
    /\ UNCHANGED <<dl, local, remote, pipelineVars>>

\* a download_zip that creates folder_path before it probes for the marker
ZipProbeAfterMakedirs ==
    /\ zip.pc = "probe"
    /\ \E probeFails \in BOOLEAN :
          IF zip.bucket /\ ScraperBlobExists(remote, MarkerKey, probeFails)
          THEN /\ zip' = [zip EXCEPT !.pc = "returned", !.result = "returned",
                                     !.probe = "present", !.made = TRUE]
               /\ csv_rows' = Append(csv_rows,
                                     Row("page", "zip", "ALREADY_ON_GCS", "Session already uploaded"))
               /\ local' = [local EXCEPT !.folder = TRUE]
               /\ dl' = dl
          ELSE /\ zip' = [zip EXCEPT !.pc = "download", !.made = TRUE,
                                     !.probe = IF ~zip.bucket THEN "none"
                                               ELSE IF probeFails THEN "error" ELSE "absent"]
               /\ csv_rows' = csv_rows
               /\ local' = [local EXCEPT !.folder = TRUE]
               /\ dl' = StartDownload(DownloadRetries)
    /\ UNCHANGED <<req, remote, pipelineVars>>

\* lines 449-465: with a bucket, probe for the marker object; if it is
\* reported present write ALREADY_ON_GCS and return; otherwise create
\* folder_path and start the download
ZipProbe ==
    /\ zip.pc = "probe"
    /\ \E probeFails \in BOOLEAN :
          IF zip.bucket /\ ScraperBlobExists(remote, MarkerKey, probeFails)
          THEN /\ zip' = [zip EXCEPT !.pc = "returned", !.result = "returned",
                                     !.probe = "present"]
               /\ csv_rows' = Append(csv_rows,
                                     Row("page", "zip", "ALREADY_ON_GCS", "Session already uploaded"))
               /\ local' = local
               /\ dl' = dl
          ELSE /\ zip' = [zip EXCEPT !.pc = "download", !.made = TRUE,
                                     !.probe = IF ~zip.bucket THEN "none"
                                               ELSE IF probeFails THEN "error" ELSE "absent"]
               /\ csv_rows' = csv_rows
               /\ local' = [local EXCEPT !.folder = TRUE]
               /\ dl' = StartDownload(DownloadRetries)
    /\ UNCHANGED <<req, remote, pipelineVars>>

\* lines 465-474, 493-495: request_download has returned
ZipAfterDownload ==
    /\ zip.pc = "download"
    /\ dl.pc = "returned"
    /\ dl' = NoDownload
    /\ CASE dl.result = "raised" ->
              /\ zip' = [zip EXCEPT !.pc = "returned", !.result = "raised"]
              /\ csv_rows' = csv_rows
         [] dl.result = "False" ->
              /\ zip' = [zip EXCEPT !.pc = "returned", !.result = "returned"]
              /\ csv_rows' = Append(csv_rows,
                                    Row("page", "zip", "DOWNLOAD_FAILED", "Download failed"))
         [] OTHER ->
              /\ zip' = IF zip.bucket
                        THEN [zip EXCEPT !.pc = "extract"]
                        ELSE [zip EXCEPT !.pc = "final",
                                         !.error_msg = "No GCS bucket available"]
              /\ csv_rows' = csv_rows
    /\ UNCHANGED <<req, local, remote, pipelineVars>>

\* extract_and_upload_zip, lines 198-218: extract the archive into
\* folder_path and list the media files below it.  A failing extraction
\* (caught at line 241) may leave some members behind
ZipExtract ==
    /\ zip.pc = "extract"
    /\ \E extracts \in BOOLEAN, part \in SUBSET zip.members :
          IF extracts
          THEN /\ part = zip.members
               /\ local' = [local EXCEPT !.files = @ \cup zip.members]
               /\ zip' = IF local.files \cup zip.members = {}
                         THEN [zip EXCEPT !.pc = "final", !.extracted = TRUE,
                                          !.error_msg = "No MP3 files found in ZIP"]
                         ELSE [zip EXCEPT !.pc = "upload", !.extracted = TRUE,
                                          !.todo = local.files \cup zip.members,
                                          !.total = Cardinality(local.files \cup zip.members)]
          ELSE /\ local' = [local EXCEPT !.files = @ \cup part]
               /\ zip' = [zip EXCEPT !.pc = "final",
                                     !.error_msg = "Failed to extract/upload ZIP"]
    /\ UNCHANGED <<req, dl, csv_rows, remote, pipelineVars>>

\* extract_and_upload_zip, lines 219-230: one pass of the upload loop, in the
\* order os.walk listed the files
ZipUploadOne ==
    /\ zip.pc = "upload"
    /\ \E m \in zip.todo, probeFails \in BOOLEAN, transferFails \in BOOLEAN :
          LET u == ScraperUploadMp3ToGcs(remote, m \in local.files, UploadKey(m),
                                         probeFails, transferFails)
          IN /\ remote' = u.store
             /\ local' = IF u.ok THEN [local EXCEPT !.files = @ \ {m}] ELSE local
             /\ zip' = [zip EXCEPT
                          !.todo = @ \ {m},
                          !.success_count = @ + (IF u.ok THEN 1 ELSE 0),
                          !.outcome[m] = u.outcome,
                          !.probeErr = IF probeFails THEN @ \cup {m} ELSE @,
                          !.transferred = IF u.transfer THEN @ \cup {m} ELSE @]
    /\ UNCHANGED <<req, dl, csv_rows, pipelineVars>>

\* lines 232-239 and 476-487: the loop is over; extract_and_upload_zip
\* removes folder_path and returns (success_count, total, ""); download_zip
\* calls rmtree on the folder again when success_count > 0
ZipCleanup ==
    /\ zip.pc = "upload"
    /\ zip.todo = {}
    /\ local' = NoLocal
    /\ zip' = [zip EXCEPT !.pc = "final", !.error_msg = "",
                          !.rmtrees = @ + (IF zip.success_count > 0 THEN 2 ELSE 1),
                          !.full = (zip.success_count = zip.total)]
    /\ UNCHANGED <<req, dl, csv_rows, remote, pipelineVars>>

\* lines 497-504: the final row
ZipFinal ==
    /\ zip.pc = "final"
    /\ csv_rows' = Append(csv_rows,
                          IF zip.error_msg \notin {"unset", ""}
                          THEN Row("page", "zip", "UPLOAD_FAILED", zip.error_msg)
                          ELSE Row("page", "zip", "SUCCESS", ""))
    /\ zip' = [zip EXCEPT !.pc = "returned", !.result = "returned"]
    /\ UNCHANGED <<req, dl, local, remote, pipelineVars>>

\* the scraper is run again and comes to the same resource locator: the
\* bucket, the ledger and the local disk are as the earlier run left them
ZipRerun ==
    /\ zip.pc = "returned"
    /\ zip.run < MaxRuns
    /\ zip' = StartZip(zip.bucket, zip.members, zip.run + 1, zip.full, Len(csv_rows))
    /\ req' = StartRequest("scraper", "page", FetchRetries)
    /\ UNCHANGED <<dl, csv_rows, local, remote, pipelineVars>>

ZipInit ==
    /\ PipelineIdle
    /\ UnitsIdle
    /\ CrawlIdle
    /\ \E s \in SUBSET MemberPaths : remote = {UploadKey(m) : m \in s}
    /\ \E b \in BOOLEAN, members \in SUBSET MemberPaths :
          zip = StartZip(b, members, 1, FALSE, 0)
    /\ req = StartRequest("scraper", "page", FetchRetries)
    /\ dl = NoDownload
    /\ csv_rows = << >>
    /\ local = NoLocal

ZipNext ==
    \/ RequestAttempt
    \/ RequestExhausted
    \/ ZipAfterFetch
    \/ ZipProbe
    \/ DownloadAttempt
    \/ ZipAfterDownload
    \/ ZipExtract
    \/ ZipUploadOne
    \/ ZipCleanup
    \/ ZipFinal
    \/ ZipRerun

\* download_zip for one resource locator, run up to MaxRuns times
SpecZip == ZipInit /\ [][ZipNext]_vars

(* ---------------------------- download_zip properties ---------------- *)

\* C18: when the existence probe of a file fails with an error, blob_exists
\* answers False and upload_mp3_to_gcs goes on to the transfer: the file is
\* not skipped as already there.
C18_ProbeErrorDefaultsToUpload ==
    zip.pc # "idle" =>
        \A m \in zip.probeErr :
            /\ m \in zip.transferred
            /\ zip.outcome[m] \in {"Uploaded", "Failed"}

\* C18 witness: a file whose probe failed was uploaded.
C18_Witness ==
    /\ zip.pc # "idle"
    /\ \E m \in zip.probeErr : zip.outcome[m] = "Uploaded" /\ UploadKey(m) \in remote

\* C19: in download_zip the marker probe comes before any archive download
\* request; when the probe reports the marker present, no download request
\* is made, folder_path is not created, nothing is extracted or uploaded,
\* and the call returns with one ALREADY_ON_GCS row.
C19_ShortCircuit ==
    zip.pc # "idle" =>
        /\ (zip.bucket /\ (dl.pc # "idle" \/ zip.made)) => zip.probe \in {"absent", "error"}
        /\ zip.probe = "present" =>
              /\ zip.pc = "returned"
              /\ dl = NoDownload
              /\ ~zip.made
              /\ ~zip.extracted
              /\ zip.transferred = {}
              /\ \A m \in MemberPaths : zip.outcome[m] = "none"
              /\ Len(RunRows) = 1
              /\ RunRows[1].status = "ALREADY_ON_GCS"

\* C19 witness: the marker was there in the first run; the call has returned
\* and the ledger holds the one row.
C19_Witness ==
    /\ zip.pc = "returned"
    /\ zip.run = 1
    /\ zip.probe = "present"
    /\ csv_rows = <<Row("page", "zip", "ALREADY_ON_GCS", "Session already uploaded")>>
    /\ ~local.folder

\* C20: when the previous run of download_zip uploaded every media file of
\* the archive, the next run's probe (if it gets an answer) finds the marker
\* and no download request is made.
C20_FullUploadIsSkippedNextRun ==
    (zip.pc # "idle" /\ zip.run > 1 /\ zip.prevFull /\ zip.probe # "error") =>
        /\ zip.probe # "absent"
        /\ dl.gets = 0

(* ===================================================================== *)
(* upload_mp3_to_gcs called again for the same file                      *)
(* ===================================================================== *)

\* how many times upload_mp3_to_gcs is called for the one file
MaxCalls == 3

\* the state of the folder upload pipeline but the bucket
helperVars == <<dirOf, max_workers, crawlVars, diskVars, mainPc, reason, mp3_files, taskVars,
                counterVars, histVars, lastCall>>

\* what the two copies of upload_mp3_to_gcs do for the file of up: the
\* scraper's copy on a member of an archive, the helper's on a file of a
\* folder
UploadOnce(probeFails, transferFails) ==
    IF up.variant = "scraper"
    THEN ScraperUploadMp3ToGcs(remote, up.present, UploadKey(up.file),
                               probeFails, transferFails)
    ELSE LET u == UploadMp3ToGcs(remote, IF up.present THEN {1} ELSE {},
                                 [f \in Files |-> up.dir], 1, probeFails, transferFails)
         IN [ok |-> u.ok, outcome |-> u.outcome,
             transfer |-> (u.outcome \in {"Uploaded", "Failed", "Missing"}), store |-> u.store]

\* one call of upload_mp3_to_gcs(bucket, mp3_file, relative_path)
UploadCall ==
    /\ up.pc = "calls"
    /\ Len(up.calls) < MaxCalls
    /\ \E probeFails \in BOOLEAN, transferFails \in BOOLEAN :
          LET u == UploadOnce(probeFails, transferFails)
          IN /\ remote' = u.store
             /\ up' = [up EXCEPT !.calls = Append(@, [ok |-> u.ok, outcome |-> u.outcome,
                                                     transfer |-> u.transfer,
                                                     probeFails |-> probeFails])]
    /\ UNCHANGED <<pg, ex, orch, scraperVars, helperVars>>

\* the caller removes the local file after a call that returned True:
\* os.remove in extract_and_upload_zip, the folder removal in the helper
CallerRemovesFile ==
    /\ up.pc = "calls"
    /\ up.present
    /\ up.calls # << >>
    /\ up.calls[Len(up.calls)].ok
    /\ up' = [up EXCEPT !.present = FALSE]
    /\ UNCHANGED <<pg, ex, orch, scraperVars, remote, helperVars>>

UploadInit ==
    /\ PipelineIdle
    /\ CrawlIdle
    /\ ScraperIdle
    /\ pg = [pc |-> "idle"]
    /\ ex = [pc |-> "idle"]
    /\ orch = [pc |-> "idle"]
    /\ \E v \in {"scraper", "helpers"}, m \in MemberPaths, d \in Folders,
          present \in BOOLEAN, there \in BOOLEAN :
          /\ up = [pc |-> "calls", variant |-> v, file |-> m, dir |-> d,
                   present |-> present, calls |-> << >>]
          /\ v = "scraper" => d = Root
          /\ v = "helpers" => m = <<"ORIGINAL.mp3">>
          /\ remote = IF ~there THEN {}
                      ELSE IF v = "scraper" THEN {UploadKey(m)}
                      ELSE {BlobName([f \in Files |-> d], 1)}

UploadNext ==
    \/ UploadCall
    \/ CallerRemovesFile

\* upload_mp3_to_gcs called up to MaxCalls times for one file
SpecUpload == UploadInit /\ [][UploadNext]_vars

\* C21 as stated: after a call whose outcome was Uploaded, every later call
\* for the same file makes no transfer and returns True.
C21_RerunNeverTransfers ==
    \A i, j \in 1..Len(up.calls) :
        (i < j /\ up.calls[i].outcome = "Uploaded") =>
            /\ ~up.calls[j].transfer
            /\ up.calls[j].ok

\* C21 amended: after a call whose outcome was Uploaded, every later call
\* for the same file whose existence probe gets an answer makes no transfer,
\* reports AlreadyExisted and returns True, whether or not the local file is
\* still there.
C21_RerunTransfersNothingWhenProbeAnswers ==
    \A i, j \in 1..Len(up.calls) :
        (i < j /\ up.calls[i].outcome = "Uploaded" /\ ~up.calls[j].probeFails) =>
            /\ ~up.calls[j].transfer
            /\ up.calls[j].outcome = "AlreadyExisted"
            /\ up.calls[j].ok

\* C21 witness: the file was uploaded, removed from local disk, and the next
\* call found it on the bucket.
C21_Witness ==
    /\ Len(up.calls) = 2
    /\ up.calls[1].outcome = "Uploaded"
    /\ ~up.present
    /\ ~up.calls[2].probeFails
    /\ up.calls[2].outcome = "AlreadyExisted"

(* ---------------------------- download_zip: what is left behind ------ *)

\* the last row the running download_zip call wrote
LastRunRow == RunRows[Len(RunRows)]

\* C22: a media file whose upload ended Failed still exists on local disk
\* when download_zip returns; only files that ended Uploaded or
\* AlreadyExisted have been removed.
C22_FailedFileLeftInPlace ==
    (zip.pc = "returned" /\ zip.extracted) =>
        \A m \in MemberPaths :
            /\ zip.outcome[m] = "Failed" => m \in local.files
            /\ (m \in zip.members /\ m \notin local.files) =>
                  zip.outcome[m] \in {"Uploaded", "AlreadyExisted"}

\* C23: when the extraction of the downloaded archive failed, folder_path
\* and whatever was extracted into it are gone from local disk when
\* download_zip returns.
C23_FailedExtractionRemovesFolder ==
    (zip.pc = "returned" /\ zip.error_msg = "Failed to extract/upload ZIP") =>
        /\ ~local.folder
        /\ ~local.archive
        /\ local.files = {}

\* C28: when the archive was extracted and one of its media files ended
\* Failed, the final row of download_zip is not SUCCESS; when every file
\* ended Failed it is UPLOAD_FAILED.
C28_UploadFailureRecorded ==
    (zip.pc = "returned" /\ zip.extracted /\ zip.total > 0) =>
        /\ (\E m \in MemberPaths : zip.outcome[m] = "Failed") =>
              LastRunRow.status # "SUCCESS"
        /\ zip.success_count = 0 => LastRunRow.status = "UPLOAD_FAILED"

(* ---------------------------- the counters of process_folder --------- *)

\* the files whose worker has passed its increment_* call
Counted == {f \in Files : pc[f] \in {"remove", "remove_cs", "delete", "done"}}

\* C24: no counter update is lost: at every moment uploaded + skipped +
\* failed is the number of files whose worker has done its increment; when
\* process_folder returns "completed" every worker has finished, no lock is
\* held, and the three counters add up to the number of discovered files.
C24_NoLostUpdate ==
    /\ uploaded + skipped + failed = Cardinality(Counted)
    /\ (mainPc = "returned" /\ reason = "completed") =>
          /\ \A f \in mp3_files : pc[f] = "done"
          /\ lock = NoThread
          /\ uploaded + skipped + failed = Cardinality(mp3_files)

\* C24 witness: two workers ran side by side, one file was uploaded and one
\* failed, and process_folder has returned.
C24_Witness ==
    /\ mainPc = "returned"
    /\ reason = "completed"
    /\ max_workers = 2
    /\ Cardinality(mp3_files) = 2
    /\ uploaded = 1
    /\ failed = 1

\* C25: a file that was found on the bucket is counted in skipped and not in
\* uploaded; uploaded counts the files that were transferred.
C25_DuplicatesCountedAsSkipped ==
    /\ skipped = Cardinality({f \in Counted : outcome[f] = "AlreadyExisted"})
    /\ uploaded = Cardinality({f \in Counted : outcome[f] = "Uploaded"})

(* ===================================================================== *)
(* src/scraper.py: get_total_pages                                       *)
(* ===================================================================== *)

\* most pagination links on a page, and most digits after "page=" in a link
MaxLinks == 2

MaxDigits == 2

\* the decimal digits the hrefs are written with
Digits == {0, 1, 5}

\* what re.search(r"page=(\d+)", href) captures from one pagination link: a
\* string of digits, or nothing (the empty sequence) when the href has no
\* "page=" followed by a digit
Hrefs == UNION {[1..n -> Digits] : n \in 0..MaxDigits}

\* the hrefs of soup.select("ul.pager__items li a.pager__link"), in page order
LinkLists == UNION {[1..n -> Hrefs] : n \in 0..MaxLinks}

\* int(match.group(1))
RECURSIVE ParseInt(_)
ParseInt(digits) ==
    IF digits = << >> THEN 0
    ELSE 10 * ParseInt(SubSeq(digits, 1, Len(digits) - 1)) + digits[Len(digits)]

\* lines 333-339: max_page after the first k links
RECURSIVE MaxPage(_, _)
MaxPage(page_links, k) ==
    IF k = 0 THEN 0
    ELSE LET before == MaxPage(page_links, k - 1)
             href   == page_links[k]
         IN IF href # << >> /\ ParseInt(href) > before THEN ParseInt(href) ELSE before

\* a page count that is the highest index itself
GetTotalPagesNoPlusOne(page_links) ==
    IF page_links = << >> THEN 1 ELSE MaxPage(page_links, Len(page_links))

\* lines 327-344: the value returned for a fetched page
GetTotalPages(page_links) ==
    IF page_links = << >> THEN 1 ELSE MaxPage(page_links, Len(page_links)) + 1

\* lines 320-344: make_request_with_retries has returned; count the pages
PagesReturn ==
    /\ pg.pc = "fetch"
    /\ req.pc = "returned"
    /\ req' = NoRequest
    /\ \E page_links \in LinkLists :
          CASE req.result = "raised" ->
                  /\ pg' = [pg EXCEPT !.pc = "returned", !.fetch = "raised",
                                      !.raised = TRUE]
                  /\ csv_rows' = csv_rows
            [] req.result = "None" ->
                  /\ pg' = [pg EXCEPT !.pc = "returned", !.fetch = "None", !.value = 1]
                  /\ csv_rows' = IF pg.module = "scraper"
                                 THEN Append(csv_rows,
                                             Row(req.url, "", "PAGE_COUNT_FAILED", "Request failed"))
                                 ELSE csv_rows
            [] OTHER ->
                  /\ pg' = [pg EXCEPT !.pc = "returned", !.fetch = "response",
                                      !.page_links = page_links,
                                      !.value = GetTotalPages(page_links)]
                  /\ csv_rows' = csv_rows
    /\ UNCHANGED <<up, ex, orch, dl, zip, local, remote, helperVars>>

PagesInit ==
    /\ PipelineIdle
    /\ CrawlIdle
    /\ remote = {}
    /\ up = [pc |-> "idle"]
    /\ ex = [pc |-> "idle"]
    /\ orch = [pc |-> "idle"]
    /\ dl = NoDownload
    /\ zip = NoZip
    /\ csv_rows = << >>
    /\ local = NoLocal
    /\ \E m \in {"scraper", "estimation"} :
          /\ req = StartRequest(m, "session", FetchRetries)
          /\ pg = [pc |-> "fetch", module |-> m, fetch |-> "none", page_links |-> << >>,
                   value |-> 0, raised |-> FALSE]

PagesNext ==
    \/ RequestAttempt
    \/ RequestExhausted
    \/ PagesReturn

\* one call of get_total_pages(url)
SpecPages == PagesInit /\ [][PagesNext]_vars

\* the page indices the pagination links of the fetched page refer to
PageIndices == {ParseInt(pg.page_links[k]) :
                   k \in {i \in 1..Len(pg.page_links) : pg.page_links[i] # << >>}}

\* C30: whenever get_total_pages returns, the value is at least 1; it is 1
\* when the fetch failed or the page has no pagination link; and when the
\* links refer to page indices it is the highest index plus 1 (a highest
\* index of 5 gives 6).
C30_PageCount ==
    (pg.pc = "returned" /\ ~pg.raised) =>
        /\ pg.value >= 1
        /\ pg.fetch = "None" => pg.value = 1
        /\ (pg.fetch = "response" /\ pg.page_links = << >>) => pg.value = 1
        /\ (pg.fetch = "response" /\ PageIndices # {}) =>
              /\ pg.value - 1 \in PageIndices
              /\ \A i \in PageIndices : i <= pg.value - 1
        /\ (pg.fetch = "response" /\ PageIndices # {} /\ \A i \in PageIndices : i <= 5
              /\ 5 \in PageIndices) => pg.value = 6

\* C30 witness: the links refer to pages 1 and 5 and the count is 6.
C30_Witness ==
    /\ pg.pc = "returned"
    /\ pg.fetch = "response"
    /\ pg.page_links = << <<1>>, <<5>> >>
    /\ pg.value = 6

(* ===================================================================== *)
(* helpers/extract_and_upload_folders.py: the archives of a folder       *)
(* ===================================================================== *)

\* most archives directly below folder_path
NumZips == 3

\* the orders in which glob may list the archives 1..n
ZipOrders(n) == {o \in [1..n -> 1..n] : \A i, j \in 1..n : o[i] = o[j] => i = j}

\* process_folder has found the folder absent from the bucket (line 310) and
\* globbed its archives (line 316)
StartExtract(zip_files, loose) ==
    [pc |-> "extract", zip_files |-> zip_files, i |-> 1, folder |-> TRUE,
     zips |-> {zip_files[k] : k \in 1..Len(zip_files)}, loose |-> loose,
     dirs |-> {}, extracted |-> {}, failed |-> {}, mp3_files |-> {}, reason |-> "none"]

\* lines 320-330: one pass of the loop.  extract_zip_file returns False when
\* the archive is corrupt or no longer there; a failed extraction may leave
\* the extract_dir behind; after a success the archive is removed; after a
\* failure shutil.rmtree(folder_path) removes the whole folder, and raises
\* when the folder is already gone
ExtractOne ==
    /\ ex.pc = "extract"
    /\ ex.i <= Len(ex.zip_files)
    /\ \E corrupt \in BOOLEAN :
          LET z == ex.zip_files[ex.i]
          IN IF z \in ex.zips /\ ~corrupt
             THEN ex' = [ex EXCEPT !.i = @ + 1,
                                   !.zips = @ \ {z},
                                   !.dirs = @ \cup {z},
                                   !.extracted = @ \cup {z}]
             ELSE IF ex.folder
                  THEN ex' = [ex EXCEPT !.i = @ + 1,
                                        !.failed = @ \cup {z},
                                        !.folder = FALSE,
                                        !.zips = {},
                                        !.dirs = {},
                                        !.loose = FALSE]
                  ELSE ex' = [ex EXCEPT !.pc = "raised", !.failed = @ \cup {z}]
    /\ UNCHANGED <<up, pg, orch, scraperVars, remote, helperVars>>

\* lines 333-339: the loop is over; glob the media files below folder_path.
\* 0 stands for the media files that lay in the folder from the start, an
\* archive's number for the files extracted from it
FindExtractedMp3 ==
    /\ ex.pc = "extract"
    /\ ex.i > Len(ex.zip_files)
    /\ LET found == IF ex.folder
                    THEN ex.dirs \cup (IF ex.loose THEN {0} ELSE {})
                    ELSE {}
       IN ex' = [ex EXCEPT !.mp3_files = found,
                           !.pc = IF found = {} THEN "returned" ELSE "upload",
                           !.reason = IF found = {} THEN "no_mp3_files" ELSE "none"]
    /\ UNCHANGED <<up, pg, orch, scraperVars, remote, helperVars>>

ExtractInit ==
    /\ PipelineIdle
    /\ CrawlIdle
    /\ ScraperIdle
    /\ remote = {}
    /\ up = [pc |-> "idle"]
    /\ pg = [pc |-> "idle"]
    /\ orch = [pc |-> "idle"]
    /\ \E n \in 1..NumZips, loose \in BOOLEAN :
          \E o \in ZipOrders(n) : ex = StartExtract(o, loose)

ExtractNext ==
    \/ ExtractOne
    \/ FindExtractedMp3

\* the archive extraction of process_folder, up to the discovery of the files
SpecExtract == ExtractInit /\ [][ExtractNext]_vars

\* C29: an archive whose extraction fails takes nothing else with it: the
\* files extracted from the other archives stay on disk and are discovered,
\* the archives not yet extracted stay in place, the media files that lay in
\* the folder stay, and process_folder does not raise.
C29_ExtractionFailureIsLocal ==
    ex.pc # "idle" =>
        /\ ex.pc # "raised"
        /\ ex.extracted \subseteq ex.dirs
        /\ \A k \in ex.i..Len(ex.zip_files) : ex.zip_files[k] \in ex.zips
        /\ ex.pc \in {"upload", "returned"} => ex.extracted \subseteq ex.mp3_files

(* ===================================================================== *)
(* src/scraper.py: process_session and the orchestrator of __main__      *)
(* ===================================================================== *)

\* most session links handed to the executor
NumSessions == 2

\* largest page count get_total_pages returns for a session, and most audio
\* links on one subpage
MaxSubpages == 2

MaxArchives == 1

\* session_url of session s, session_subpage_url of its subpage p, and the
\* audio_url of an archive linked from that subpage
SessionUrl(s) == <<"session", s>>

SubpageUrl(s, p) == <<"session", s, "page", p>>

AudioUrl(s, p) == <<"session", s, "page", p, "audio">>

\* the ways a call of make_request_with_retries(url, headers) ends: what it
\* returns (or that it raised) and the rows it wrote
FetchEnds(url) ==
    { [result |-> "response", rows |-> << >>],
      [result |-> "None", rows |-> <<Row(url, "", "REQUEST_404", "HTTP 4xx")>>],
      [result |-> "None", rows |-> <<Row(url, "", "REQUEST_FAILED", "Max retries exceeded")>>],
      [result |-> "None", rows |-> <<Row(url, "", "REQUEST_EXCEPTION", "str(e)"),
                                     Row(url, "", "REQUEST_FAILED", "Max retries exceeded")>>],
      [result |-> "raised", rows |-> << >>] }

\* the ways a call of download_zip(audio_url, bucket) ends for its caller: it
\* returns or it raises; one row stands for the rows it wrote
ZipEnds(url) ==
    { [result |-> "returned", rows |-> <<Row(url, "zip", "SUCCESS", "")>>],
      [result |-> "returned", rows |-> <<Row(url, "zip", "DOWNLOAD_FAILED", "Download failed")>>],
      [result |-> "raised", rows |-> << >>] }

\* a session whose future has been submitted
QueuedSession == [pc |-> "queued", total_subpages |-> 0, subpage |-> 0, todo |-> 0,
                  seen |-> {}]

SessionsOf == DOMAIN orch.sess

\* the sessions a worker thread is running
RunningSessions == {s \in SessionsOf : orch.sess[s].pc \in {"pages", "subpage", "archive"}}

\* the sessions whose future is done
EndedSessions == {s \in SessionsOf : orch.sess[s].pc \in {"finished", "raised"}}

\* line 583: a free worker of the executor takes the next submitted session
SessionStart(s) ==
    /\ orch.pc = "run"
    /\ orch.sess[s].pc = "queued"
    /\ Cardinality(RunningSessions) < orch.max_workers
    /\ \A t \in SessionsOf : t < s => orch.sess[t].pc # "queued"
    /\ orch' = [orch EXCEPT !.sess[s].pc = "pages"]
    /\ UNCHANGED <<up, pg, ex, scraperVars, remote, helperVars>>

\* lines 518, 539-544: go to the next subpage, or end the session
NextSubpage(x) ==
    IF x.subpage + 1 < x.total_subpages
    THEN [x EXCEPT !.pc = "subpage", !.subpage = @ + 1, !.todo = 0]
    ELSE [x EXCEPT !.pc = "finished", !.subpage = @ + 1, !.todo = 0]

\* line 514: get_total_pages(session_url), outside any try: an exception
\* leaves process_session and is kept in the future
SessionPages(s) ==
    /\ orch.sess[s].pc = "pages"
    /\ \E e \in FetchEnds(SessionUrl(s)), total \in 1..MaxSubpages :
          LET x == [orch.sess[s] EXCEPT !.seen = @ \cup {e.result}]
          IN CASE e.result = "raised" ->
                     /\ orch' = [orch EXCEPT !.sess[s] = [x EXCEPT !.pc = "raised"]]
                     /\ csv_rows' = csv_rows
               [] e.result = "None" ->
                     /\ orch' = [orch EXCEPT !.sess[s] =
                                    [x EXCEPT !.pc = "subpage", !.total_subpages = 1]]
                     /\ csv_rows' = csv_rows \o e.rows \o
                                    <<Row(SessionUrl(s), "", "PAGE_COUNT_FAILED", "Request failed")>>
               [] OTHER ->
                     /\ orch' = [orch EXCEPT !.sess[s] =
                                    [x EXCEPT !.pc = "subpage", !.total_subpages = total]]
                     /\ csv_rows' = csv_rows
    /\ UNCHANGED <<up, pg, ex, req, dl, zip, local, remote, helperVars>>

\* lines 520-521, 533-539: parse_audio_links for the current subpage
SessionSubpage(s) ==
    /\ orch.sess[s].pc = "subpage"
    /\ \E e \in FetchEnds(SubpageUrl(s, orch.sess[s].subpage)), k \in 0..MaxArchives :
          LET x == [orch.sess[s] EXCEPT !.seen = @ \cup {e.result}]
          IN CASE e.result = "raised" ->
                     /\ orch' = [orch EXCEPT !.sess[s] = NextSubpage(x)]
                     /\ csv_rows' = Append(csv_rows,
                                           Row(SessionUrl(s), "", "SUBPAGE_PROCESSING_FAILED",
                                               "str(e)"))
               [] e.result = "None" ->
                     /\ orch' = [orch EXCEPT !.sess[s] = NextSubpage(x)]
                     /\ csv_rows' = csv_rows \o e.rows \o
                                    <<Row(SubpageUrl(s, x.subpage), "", "AUDIO_LINKS_FAILED",
                                          "Request failed")>>
               [] OTHER ->
                     /\ orch' = [orch EXCEPT !.sess[s] =
                                    IF k = 0 THEN NextSubpage(x)
                                    ELSE [x EXCEPT !.pc = "archive", !.todo = k]]
                     /\ csv_rows' = csv_rows
    /\ UNCHANGED <<up, pg, ex, req, dl, zip, local, remote, helperVars>>

\* lines 522-532: download_zip for the next audio link of the subpage
SessionArchive(s) ==
    /\ orch.sess[s].pc = "archive"
    /\ \E z \in ZipEnds(AudioUrl(s, orch.sess[s].subpage)) :
          LET x == orch.sess[s]
          IN /\ orch' = [orch EXCEPT !.sess[s] =
                            IF x.todo > 1 THEN [x EXCEPT !.todo = @ - 1] ELSE NextSubpage(x)]
             /\ csv_rows' = IF z.result = "raised"
                            THEN Append(csv_rows,
                                        Row(AudioUrl(s, x.subpage), "",
                                            "SESSION_PROCESSING_FAILED", "str(e)"))
                            ELSE csv_rows \o z.rows
    /\ UNCHANGED <<up, pg, ex, req, dl, zip, local, remote, helperVars>>

\* a loop over the futures without the try: the first exception ends it
MainCollectUncaught(s) ==
    /\ orch.pc = "run"
    /\ s \in EndedSessions \ orch.collected
    /\ IF orch.sess[s].pc = "finished"
       THEN orch' = [orch EXCEPT !.collected = @ \cup {s}, !.successful_sessions = @ + 1]
       ELSE orch' = [orch EXCEPT !.collected = @ \cup {s}, !.pc = "done"]
    /\ UNCHANGED <<up, pg, ex, scraperVars, remote, helperVars>>

\* lines 584-594: as_completed hands over a finished future
MainCollect(s) ==
    /\ orch.pc = "run"
    /\ s \in EndedSessions \ orch.collected
    /\ IF orch.sess[s].pc = "finished"
       THEN /\ orch' = [orch EXCEPT !.collected = @ \cup {s}, !.successful_sessions = @ + 1]
            /\ csv_rows' = csv_rows
       ELSE /\ orch' = [orch EXCEPT !.collected = @ \cup {s}, !.failed_sessions = @ + 1]
            /\ csv_rows' = Append(csv_rows,
                                  Row(SessionUrl(s), "", "SESSION_EXCEPTION", "str(exc)"))
    /\ UNCHANGED <<up, pg, ex, req, dl, zip, local, remote, helperVars>>

\* lines 596-599: every future has been handed over; print the summary
MainDone ==
    /\ orch.pc = "run"
    /\ orch.collected = SessionsOf
    /\ orch' = [orch EXCEPT !.pc = "done"]
    /\ UNCHANGED <<up, pg, ex, scraperVars, remote, helperVars>>

MainInit ==
    /\ PipelineIdle
    /\ CrawlIdle
    /\ ScraperIdle
    /\ remote = {}
    /\ up = [pc |-> "idle"]
    /\ pg = [pc |-> "idle"]
    /\ ex = [pc |-> "idle"]
    /\ \E n \in 1..NumSessions, w \in 1..MaxWorkers :
          orch = [pc |-> "run", max_workers |-> w, sess |-> [s \in 1..n |-> QueuedSession],
                  collected |-> {}, successful_sessions |-> 0, failed_sessions |-> 0]

MainNext ==
    \/ \E s \in SessionsOf : SessionStart(s)
    \/ \E s \in SessionsOf : SessionPages(s)
    \/ \E s \in SessionsOf : SessionSubpage(s)
    \/ \E s \in SessionsOf : SessionArchive(s)
    \/ \E s \in SessionsOf : MainCollect(s)
    \/ MainDone

\* the executor runs every submitted session and every request times out,
\* so a step that can be taken is taken in the end
SpecMain == MainInit /\ [][MainNext]_vars /\ WF_vars(MainNext)

(* ---------------------------- orchestrator properties ---------------- *)

\* the rows of the ledger that record a failure met while processing session s
FailureRowsOf(s) ==
    {i \in 1..Len(csv_rows) :
        /\ csv_rows[i].url[2] = s
        /\ csv_rows[i].status \notin {"SUCCESS", "DOWNLOAD_SUCCESS", "ALREADY_ON_GCS"}}

\* at the end every session has run to an end and has been counted once
AllSessionsCounted ==
    orch.pc = "done" =>
        /\ EndedSessions = SessionsOf
        /\ orch.collected = SessionsOf
        /\ orch.successful_sessions + orch.failed_sessions = Cardinality(SessionsOf)
        /\ orch.failed_sessions = Cardinality({s \in SessionsOf : orch.sess[s].pc = "raised"})

\* C26: a session that fails or raises stops no other session: every
\* submitted session runs to an end, the orchestrator comes to its end, and
\* there successful_sessions + failed_sessions is the number of sessions
\* submitted.
C26_SessionsIsolated ==
    /\ []AllSessionsCounted
    /\ \A s \in 1..NumSessions : <>(s \in SessionsOf => s \in EndedSessions)
    /\ <>(orch.pc = "done")

\* C26 witness: the first session raised, the second ran to its end after
\* that, and the summary counts one of each.
C26_Witness ==
    /\ orch.pc = "done"
    /\ SessionsOf = {1, 2}
    /\ orch.max_workers = 1
    /\ orch.sess[1].pc = "raised"
    /\ orch.sess[2].pc = "finished"
    /\ orch.successful_sessions = 1
    /\ orch.failed_sessions = 1

\* C27: when every fetch of one session failed (make_request_with_retries
\* returned None each time) and every fetch of the other sessions succeeded, the ledger holds exactly one failure row for the
\* failing session, and the other sessions are counted as successful.
C27_OneFailureEntry ==
    orch.pc = "done" =>
        \A s \in SessionsOf :
            (/\ orch.sess[s].seen = {"None"}
             /\ \A t \in SessionsOf \ {s} : orch.sess[t].seen = {"response"}) =>
                /\ Cardinality(FailureRowsOf(s)) = 1
                /\ orch.successful_sessions >= Cardinality(SessionsOf) - 1

(* ===================================================================== *)
(* process_folder: what reaches the bucket                               *)
(* ===================================================================== *)

\* the bucket answered every probe it was asked and refused no transfer: no
\* worker ended in "Failed" (a refused transfer) or "Raised".  A probe that
\* fails on a blob that is there only makes the worker transfer the file
\* again, so it cannot keep a file off the bucket.
StoreNeverRefused == \A f \in Files : outcome[f] \notin {"Failed", "Raised"}

\* C33: no file is lost to concurrency: when the bucket answers every probe
\* and accepts every transfer, process_folder returns "completed" with every
\* discovered file on the bucket (so with failed = 0), for every number of
\* files, every max_workers and every interleaving.
C33_NoFileLost ==
    (mainPc = "returned" /\ reason = "completed" /\ StoreNeverRefused) =>
        \A f \in mp3_files : BlobName(dirOf, f) \in remote

(* ---------------------------- UploadCounters: no empty entry --------- *)

\* C36: outside folder_lock no key of folder_files maps to an empty set:
\* after any sequence of add_file_to_folder and remove_file_from_folder
\* calls, releases of unregistered files included, every folder in the map
\* has at least one tracked file.
C36_NoEmptyEntry ==
    folder_lock = NoThread =>
        \A d \in DOMAIN folder_files : folder_files[d] # {}

\* C36 witness: a file that is not tracked was released from a folder that
\* is tracked, and the folder kept its entry.
C36_Witness ==
    /\ lastCall.op = "remove"
    /\ ~lastCall.tracked
    /\ lastCall.folder \in DOMAIN folder_files
    /\ folder_lock = NoThread

(* ---------------------------- process_folder: the tracker drains ----- *)

\* C35: the tracker drains: under every interleaving and every mix of upload
\* outcomes every worker of process_folder eventually finishes and
\* process_folder returns; when it has returned "completed", folder_files is
\* empty: every registered file has been released and no folder entry is
\* left.
C35_TrackerDrains ==
    /\ []((mainPc = "returned" /\ reason = "completed") =>
            /\ DOMAIN folder_files = {}
            /\ folder_lock = NoThread
            /\ \A f \in mp3_files : Registered(f) /\ Released(f))
    /\ ((mainPc = "run") ~> (\A f \in mp3_files : pc[f] = "done"))
    /\ <>(mainPc = "returned")

\* C35 witness: two workers ran side by side on files of two directories,
\* one upload went through and the other raised, and process_folder has
\* returned with an empty tracker.
C35_Witness ==
    /\ mainPc = "returned"
    /\ reason = "completed"
    /\ max_workers = 2
    /\ dirOf[1] # dirOf[2]
    /\ outcome[1] = "Uploaded"
    /\ outcome[2] = "Raised"
    /\ DOMAIN folder_files = {}

(* ---------------------------- download_zip: removal of the folder ---- *)

\* C37: for one archive handled by download_zip, shutil.rmtree is called on
\* the archive's folder at most once, whatever the upload outcomes of its
\* files are.
C37_FolderRemovedAtMostOnce ==
    zip.pc # "idle" => zip.rmtrees <= 1

(* ===================================================================== *)
(* src/scraper.py: the destination keys of the files of several archives *)
(* ===================================================================== *)

\* the archives one run of the scraper downloads
NumArchives == 2

Archives == 1..NumArchives

\* folder_path of archive a (line 445-446): save_folder joined with the
\* archive's name, date and time, which a stands for
ArchiveFolder(a) == <<"un_recordings", a>>

\* the path of member m of archive a after extractall(folder_path)
ExtractedPath(a, m) == ArchiveFolder(a) \o m

\* os.path.relpath(path, start) for a path below start
Relpath(path, start) == SubSeq(path, Len(start) + 1, Len(path))

\* lines 222-224 and 150: the key member m of archive a is uploaded under.
\* upload_single_file of extract_and_upload_folders.py (lines 265-268) builds
\* its key the same way, relative to the folder handed to process_folder.
DestinationKey(a, m) ==
    UploadKey(Relpath(ExtractedPath(a, m), ArchiveFolder(a)))

\* the media files of the run: <<archive, member>>
RunFiles == Archives \X MemberPaths

\* lines 219-227: upload_mp3_to_gcs for one extracted file of one archive,
\* and os.remove when it returned True.  Archives of different sessions are
\* handled by different workers, so the files come in any order.
KeyUploadOne ==
    /\ ky.pc = "run"
    /\ \E x \in ky.todo, probeFails \in BOOLEAN, transferFails \in BOOLEAN :
          LET u == ScraperUploadMp3ToGcs(remote, x \in ky.files, DestinationKey(x[1], x[2]),
                                         probeFails, transferFails)
          IN /\ remote' = u.store
             /\ ky' = [ky EXCEPT
                         !.todo = @ \ {x},
                         !.files = IF u.ok THEN @ \ {x} ELSE @,
                         !.outcome[x] = u.outcome]
    /\ UNCHANGED <<cr, lg, unitVars, scraperVars, dirOf, max_workers, diskVars, mainPc, reason,
                   mp3_files, taskVars, counterVars, histVars, lastCall>>

\* every extracted file has been handed to upload_mp3_to_gcs
KeyRunDone ==
    /\ ky.pc = "run"
    /\ ky.todo = {}
    /\ ky' = [ky EXCEPT !.pc = "done"]
    /\ UNCHANGED <<cr, lg, unitVars, scraperVars, remote, dirOf, max_workers, diskVars, mainPc,
                   reason, mp3_files, taskVars, counterVars, histVars, lastCall>>

KeysInit ==
    /\ PipelineIdle
    /\ ScraperIdle
    /\ UnitsIdle
    /\ cr = [pc |-> "idle"]
    /\ lg = [pc |-> "idle"]
    /\ \E there \in BOOLEAN :
          remote = IF there THEN {UploadKey(<<"ORIGINAL.mp3">>)} ELSE {}
    /\ \E members \in [Archives -> (SUBSET MemberPaths) \ {{}}] :
          LET all == {x \in RunFiles : x[2] \in members[x[1]]}
          IN ky = [pc |-> "run", all |-> all, files |-> all, todo |-> all,
                   before |-> remote,
                   outcome |-> [x \in all |-> "none"]]

KeysNext ==
    \/ KeyUploadOne
    \/ KeyRunDone

\* one run of the scraper over the extracted files of NumArchives archives
SpecKeys == KeysInit /\ [][KeysNext]_vars

\* C34: destination keys are injective over the local files of a run: two
\* files of different archives that were handed to upload_mp3_to_gcs never
\* got the same destination key, so no file is reported AlreadyExisted (and
\* removed locally without a transfer) on account of a key that was not on
\* the bucket before the run and that the file of another archive was
\* uploaded under.
C34_KeysInjective ==
    /\ \A x, y \in ky.all :
          (x[1] # y[1] /\ ky.outcome[x] # "none" /\ ky.outcome[y] # "none") =>
              DestinationKey(x[1], x[2]) # DestinationKey(y[1], y[2])
    /\ \A x \in ky.all :
          ky.outcome[x] = "AlreadyExisted" =>
              DestinationKey(x[1], x[2]) \in ky.before

(* ===================================================================== *)
(* src/scraper.py: write_csv_entry called by concurrent session workers  *)
(* ===================================================================== *)

\* the session workers that write to the ledger
NumWriters == 2

\* the write_csv_entry calls each worker makes
MaxEntries == 2

Writers == 1..NumWriters

\* CSV_HEADERS as a row of the file
HeaderRow == <<"header">>

\* the row of the k-th entry of worker t
EntryRow(t, k) == <<"row", t, k>>

\* the rows a call appends when the with block closes the file: the header
\* first when the file was not there at line 57
EntryRows(file_exists, t, k) ==
    (IF file_exists THEN << >> ELSE <<HeaderRow>>) \o <<EntryRow(t, k)>>

\* line 57: file_exists = os.path.exists(CSV_FILE)
LedgerCheck(t) ==
    /\ lg.pc = "run"
    /\ lg.w[t].pc = "idle"
    /\ lg.w[t].calls < MaxEntries
    /\ lg' = [lg EXCEPT !.w[t].pc = "checked", !.w[t].file_exists = lg.exists]
    /\ UNCHANGED <<ky, cr, unitVars, scraperVars, remote, dirOf, max_workers, diskVars, mainPc,
                   reason, mp3_files, taskVars, counterVars, histVars, lastCall>>

\* line 59: open(CSV_FILE, 'a') creates the file when it is not there
LedgerOpen(t) ==
    /\ lg.pc = "run"
    /\ lg.w[t].pc = "checked"
    /\ lg' = [lg EXCEPT !.w[t].pc = "opened", !.exists = TRUE]
    /\ UNCHANGED <<ky, cr, unitVars, scraperVars, remote, dirOf, max_workers, diskVars, mainPc,
                   reason, mp3_files, taskVars, counterVars, histVars, lastCall>>

\* lines 60-63: the writer puts the header (when file_exists is False) and
\* the row into the file object's buffer, and leaving the with block
\* appends the buffer to the file
LedgerWrite(t) ==
    /\ lg.pc = "run"
    /\ lg.w[t].pc = "opened"
    /\ lg' = [lg EXCEPT !.w[t].pc = "idle",
                        !.w[t].calls = @ + 1,
                        !.rows = @ \o EntryRows(lg.w[t].file_exists, t, lg.w[t].calls + 1)]
    /\ UNCHANGED <<ky, cr, unitVars, scraperVars, remote, dirOf, max_workers, diskVars, mainPc,
                   reason, mp3_files, taskVars, counterVars, histVars, lastCall>>

\* the ledger is either not there or was left by an earlier run, with its
\* header
LedgerInit ==
    /\ PipelineIdle
    /\ ScraperIdle
    /\ UnitsIdle
    /\ remote = {}
    /\ ky = [pc |-> "idle"]
    /\ cr = [pc |-> "idle"]
    /\ \E there \in BOOLEAN :
          lg = [pc |-> "run", existed |-> there, exists |-> there,
                rows |-> IF there THEN <<HeaderRow>> ELSE << >>,
                w |-> [t \in Writers |-> [pc |-> "idle", file_exists |-> FALSE, calls |-> 0]]]

LedgerNext ==
    \E t \in Writers :
        \/ LedgerCheck(t)
        \/ LedgerOpen(t)
        \/ LedgerWrite(t)

\* write_csv_entry called from NumWriters session workers
SpecLedger == LedgerInit /\ [][LedgerNext]_vars

\* the positions of the header row in the file
HeaderPositions == {i \in 1..Len(lg.rows) : lg.rows[i] = HeaderRow}

\* C38: the ledger is well formed under concurrency: for every interleaving
\* of write_csv_entry calls of concurrent session workers on a ledger file
\* that was not there, the header row is written exactly once and is the
\* first row of the file.
C38_HeaderOnceAndFirst ==
    (~lg.existed /\ lg.rows # << >>) => HeaderPositions = {1}

(* ===================================================================== *)
(* src/scraper.py: the catalog crawl of __main__ and the subpage walk of *)
(* process_session, with parse_session_links and parse_audio_links       *)
(* ===================================================================== *)

\* how many of the catalog pages of the VM are crawled
MaxCatalogPages == 2

\* most session links on one catalog page
MaxSessionLinks == 1

\* most meeting entries on one subpage
MaxMeetings == 2

\* line 563: the catalog pages of VM 1
VmPages == <<0, 2, 4, 6>>

\* line 347: url = f"{BASE_URL}?page={page_num}"
CatalogUrl(page_num) == <<"catalog", "page", page_num>>

\* line 369: the session link of the j-th row of a catalog page
SessionLink(page_num, j) == <<"session", page_num, j>>

\* the session process_session is called with
WalkedSession == 1

\* lines 406-407: the full_url of the listen link of the i-th meeting of
\* a subpage
ListenUrl(subpage, i) == <<"https://conf.unog.ch", subpage, i>>

\* a div.meeting-list-item: whether it carries the private marker, and its
\* a.button--alt: missing, without href, or with one
Meetings == [private : BOOLEAN, listen : {"none", "nohref", "href"}]

\* the meeting lists a subpage may hold
MeetingLists == UNION {[1..n -> Meetings] : n \in 0..MaxMeetings}

\* a classification that looks at the listen link first
ClassifyMeetingListenFirst(meeting) ==
    IF meeting.listen = "href" THEN "downloadable"
    ELSE IF meeting.private THEN "private"
    ELSE "unavailable"

\* lines 398-410: what the loop body does with one meeting
ClassifyMeeting(meeting) ==
    IF meeting.private THEN "private"
    ELSE IF meeting.listen = "href" THEN "downloadable"
    ELSE "unavailable"

\* line 385: what parse_audio_links returns when the fetch returned None
EmptyResult == [audio_links |-> << >>, private |-> 0, unavailable |-> 0, total |-> 0]

\* lines 389-414: the loop over the first k meetings of the subpage
RECURSIVE ParseMeetings(_, _, _)
ParseMeetings(meetings, subpage, k) ==
    IF k = 0
    THEN EmptyResult
    ELSE LET r == ParseMeetings(meetings, subpage, k - 1)
             c == ClassifyMeeting(meetings[k])
         IN [audio_links |-> IF c = "downloadable"
                             THEN Append(r.audio_links, ListenUrl(subpage, k))
                             ELSE r.audio_links,
             private     |-> r.private + (IF c = "private" THEN 1 ELSE 0),
             unavailable |-> r.unavailable + (IF c = "unavailable" THEN 1 ELSE 0),
             total       |-> r.total + 1]

\* no parse_audio_links call has returned in the current pass of the loop
NoParse == [fetch |-> "none", meetings |-> << >>, result |-> EmptyResult]

\* the crawl at rest, as a record with every field
CrawlRecord(at, pages) ==
    [pc |-> at, pages |-> pages, next |-> 1, crawled |-> << >>, all_session_links |-> << >>,
     total_subpages |-> 0, subpage |-> 0, fetched |-> << >>, failed_at |-> {},
     last |-> NoParse, todo |-> << >>]

crawlFrame == <<ky, lg, unitVars, req, dl, zip, local, remote, dirOf, max_workers, diskVars,
                mainPc, reason, mp3_files, taskVars, counterVars, histVars, lastCall>>

\* lines 569-576: parse_session_links for the next catalog page.  The call is
\* outside any try: an exception leaves __main__.
CatalogPage ==
    /\ cr.pc = "catalog"
    /\ LET page == cr.pages[cr.next]
           after == IF cr.next = Len(cr.pages) THEN "fanout" ELSE "catalog"
       IN \E e \in FetchEnds(CatalogUrl(page)), k \in 0..MaxSessionLinks :
             LET session_links == IF e.result = "response"
                                  THEN [j \in 1..k |-> SessionLink(page, j)]
                                  ELSE << >>
                 entry == [page |-> page, fetch |-> e.result, session_links |-> session_links]
             IN CASE e.result = "raised" ->
                        /\ cr' = [cr EXCEPT !.pc = "aborted", !.crawled = Append(@, entry)]
                        /\ csv_rows' = csv_rows
                  [] e.result = "None" ->
                        /\ cr' = [cr EXCEPT !.pc = after, !.next = @ + 1,
                                            !.crawled = Append(@, entry)]
                        /\ csv_rows' = csv_rows \o e.rows \o
                                       <<Row(CatalogUrl(page), "", "SESSION_LINKS_FAILED",
                                             "Request failed")>>
                  [] OTHER ->
                        /\ cr' = [cr EXCEPT !.pc = after, !.next = @ + 1,
                                            !.crawled = Append(@, entry),
                                            !.all_session_links = @ \o session_links]
                        /\ csv_rows' = csv_rows
    /\ UNCHANGED crawlFrame

\* lines 518, 539-544: the next pass of the subpage loop, or the end of
\* process_session
WalkOn(x) ==
    IF x.subpage + 1 < x.total_subpages
    THEN [x EXCEPT !.pc = "subpage", !.subpage = @ + 1, !.last = NoParse, !.todo = << >>]
    ELSE [x EXCEPT !.pc = "finished", !.subpage = @ + 1, !.last = NoParse, !.todo = << >>]

\* line 514: get_total_pages(session_url), outside any try
WalkPages ==
    /\ cr.pc = "pages"
    /\ \E e \in FetchEnds(SessionUrl(WalkedSession)), total \in 1..MaxSubpages :
          CASE e.result = "raised" ->
                  /\ cr' = [cr EXCEPT !.pc = "raised"]
                  /\ csv_rows' = csv_rows
            [] e.result = "None" ->
                  /\ cr' = [cr EXCEPT !.pc = "subpage", !.total_subpages = 1]
                  /\ csv_rows' = csv_rows \o e.rows \o
                                 <<Row(SessionUrl(WalkedSession), "", "PAGE_COUNT_FAILED",
                                       "Request failed")>>
            [] OTHER ->
                  /\ cr' = [cr EXCEPT !.pc = "subpage", !.total_subpages = total]
                  /\ csv_rows' = csv_rows
    /\ UNCHANGED crawlFrame

\* lines 520-521, 533-539: parse_audio_links(session_url, subpage) and the
\* handler around it
WalkSubpage ==
    /\ cr.pc = "subpage"
    /\ \E e \in FetchEnds(SubpageUrl(WalkedSession, cr.subpage)), meetings \in MeetingLists :
          LET x == [cr EXCEPT !.fetched = Append(@, cr.subpage)]
          IN CASE e.result = "raised" ->
                     /\ cr' = WalkOn([x EXCEPT !.failed_at = @ \cup {cr.subpage}])
                     /\ csv_rows' = Append(csv_rows,
                                           Row(SessionUrl(WalkedSession), "",
                                               "SUBPAGE_PROCESSING_FAILED", "str(e)"))
               [] e.result = "None" ->
                     /\ cr' = [x EXCEPT !.pc = "links", !.failed_at = @ \cup {cr.subpage},
                                        !.last = [fetch |-> "None", meetings |-> << >>,
                                                  result |-> EmptyResult]]
                     /\ csv_rows' = csv_rows \o e.rows \o
                                    <<Row(SubpageUrl(WalkedSession, cr.subpage), "",
                                          "AUDIO_LINKS_FAILED", "Request failed")>>
               [] OTHER ->
                     LET r == ParseMeetings(meetings, cr.subpage, Len(meetings))
                     IN /\ cr' = [x EXCEPT !.pc = "links", !.todo = r.audio_links,
                                           !.last = [fetch |-> "response",
                                                     meetings |-> meetings, result |-> r]]
                        /\ csv_rows' = csv_rows
    /\ UNCHANGED crawlFrame

\* lines 522-532, 539: download_zip for the next audio link of the subpage;
\* after the last one, on to the next subpage
WalkLinks ==
    /\ cr.pc = "links"
    /\ IF cr.todo = << >>
       THEN /\ cr' = WalkOn(cr)
            /\ csv_rows' = csv_rows
       ELSE \E z \in ZipEnds(Head(cr.todo)) :
               /\ cr' = [cr EXCEPT !.todo = Tail(@)]
               /\ csv_rows' = IF z.result = "raised"
                              THEN Append(csv_rows,
                                          Row(Head(cr.todo), "", "SESSION_PROCESSING_FAILED",
                                              "str(e)"))
                              ELSE csv_rows \o z.rows
    /\ UNCHANGED crawlFrame

\* either __main__ is about to crawl its catalog pages, or a worker is
\* about to run process_session for a session link
CrawlInit ==
    /\ PipelineIdle
    /\ UnitsIdle
    /\ remote = {}
    /\ req = NoRequest
    /\ dl = NoDownload
    /\ zip = NoZip
    /\ local = NoLocal
    /\ csv_rows = << >>
    /\ ky = [pc |-> "idle"]
    /\ lg = [pc |-> "idle"]
    /\ \/ \E n \in 1..MaxCatalogPages : cr = CrawlRecord("catalog", SubSeq(VmPages, 1, n))
       \/ cr = CrawlRecord("pages", << >>)

CrawlNext ==
    \/ CatalogPage
    \/ WalkPages
    \/ WalkSubpage
    \/ WalkLinks

SpecCrawl == CrawlInit /\ [][CrawlNext]_vars

\* the meetings of the parsed subpage that carry the private marker
PrivateEntries == {i \in 1..Len(cr.last.meetings) : cr.last.meetings[i].private}

\* C31: parse_audio_links classifies each meeting entry of a subpage as
\* exactly one of private, unavailable or downloadable: private + unavailable
\* + number of returned locators = total for every page, and total is the
\* number of entries; a private entry never yields a locator, even with a
\* listen link; process_session fetches the subpages 0..pageCount-1 in
\* increasing order, each exactly once.
C31_EntriesClassifiedSubpagesInOrder ==
    /\ LET r == cr.last.result
       IN /\ r.private + r.unavailable + Len(r.audio_links) = r.total
          /\ r.total = Len(cr.last.meetings)
          /\ r.private = Cardinality(PrivateEntries)
          /\ \A i \in PrivateEntries, j \in 1..Len(r.audio_links) :
                r.audio_links[j] # ListenUrl(cr.subpage, i)
    /\ cr.fetched = [i \in 1..Len(cr.fetched) |-> i - 1]
    /\ Len(cr.fetched) <= cr.total_subpages
    /\ cr.pc = "finished" => Len(cr.fetched) = cr.total_subpages

\* C31 witness: the second of two subpages has been parsed; it holds a
\* private meeting with a listen link and a public one with a listen link,
\* and one locator was returned.
C31_Witness ==
    /\ cr.pc = "links"
    /\ cr.total_subpages = 2
    /\ cr.fetched = <<0, 1>>
    /\ Len(cr.last.meetings) = 2
    /\ cr.last.meetings[1] = [private |-> TRUE, listen |-> "href"]
    /\ cr.last.meetings[2] = [private |-> FALSE, listen |-> "href"]
    /\ cr.last.result.audio_links = <<ListenUrl(1, 2)>>
    /\ cr.last.result.private = 1

\* C32: a failed fetch of a catalog page or of a session subpage yields an
\* empty result for that page and does not abort the crawl: after subpage i
\* of a session failed, the later subpages are still fetched, and after
\* catalog page p failed the remaining catalog pages are still crawled.
C32_FailedFetchDoesNotAbort ==
    /\ cr.last.fetch = "None" => cr.last.result = EmptyResult /\ cr.todo = << >>
    /\ (cr.pc \in {"finished", "raised"} /\ cr.failed_at # {}) =>
          cr.fetched = [i \in 1..cr.total_subpages |-> i - 1]
    /\ \A i \in 1..Len(cr.crawled) :
          cr.crawled[i].fetch # "response" => cr.crawled[i].session_links = << >>
    /\ (cr.pc \in {"fanout", "aborted"} /\ \E i \in 1..Len(cr.crawled) :
                                                cr.crawled[i].fetch # "response") =>
          Len(cr.crawled) = Len(cr.pages)

====
